---- MODULE Spec2Model ----
(***************************************************************************)
(* PrivateRPC / Hashield: the EVM escrows of the XMR <-> EVM atomic swap   *)
(* (XMREscrowSrc, XMREscrowDst), the XMRSwapAdapter that mirrors them into *)
(* the SwapCreator registry, and the clock the timelocks are read against. *)
(*                                                                         *)
(* One step of the model is one transaction.  A transaction that reverts   *)
(* leaves the chain as it was (EVM semantics) and only its revert reason   *)
(* is recorded, in `last`, until the caller has read it (Return).  Time is *)
(* counted in units of 30 minutes.  The scripts that coordinate an order   *)
(* off chain are modelled by the order files they read and write.          *)
(***************************************************************************)
EXTENDS Integers, Sequences, FiniteSets, TLC

VARIABLES
    now,                \* block.timestamp
    asset,              \* the asset the two swap legs are denominated in
    deployed,           \* the escrow instances that have been instantiated
    timelocks,          \* the Timelocks the swap's Immutables carry
    eth,                \* native balance of every account
    tok,                \* ERC20 balance of every account
    allowance,          \* ERC20 allowance, <<owner, spender>> -> amount
    hashlockToSwapID,   \* XMRSwapAdapter.hashlockToSwapID
    swapIDToHashlock,   \* XMRSwapAdapter.swapIDToHashlock
    swaps,              \* SwapCreator: the swap records, by identifier
    escrowLog,          \* the events each escrow has emitted, oldest first
    last,               \* the latest transaction: its call, result and trace
    xmr,                \* the counter-ledger leg: none, locked, claimed or refunded
    orderFiles,         \* the order files the coordinator scripts keep, by order id
    proc,               \* the script each coordinator process is running, if any
    sent                \* the external actions submitted, by order id and step

\* What the coordinator scripts keep and change.
coordVars == <<orderFiles, proc, sent>>

vars == <<now, asset, deployed, timelocks, eth, tok, allowance, hashlockToSwapID, swapIDToHashlock,
          swaps, escrowLog, last, xmr, orderFiles, proc, sent>>

-----------------------------------------------------------------------------
(* Bounds of the model *)

MaxTime == 3
MaxSwaps == 2
MaxEvents == 3
Amount == 2
SafetyDeposit == 1
MaxOrders == 2
MaxSends == 2

-----------------------------------------------------------------------------
(* Accounts, assets, secrets *)

Maker == "maker"
Taker == "taker"
Other == "other"
Users == {Maker, Taker, Other}

EscrowSrc == "XMREscrowSrc"
EscrowDst == "XMREscrowDst"
Escrows == {EscrowSrc, EscrowDst}

AdapterAddr == "XMRSwapAdapter"
RegistryAddr == "SwapCreator"
Accounts == Users \cup Escrows \cup {AdapterAddr, RegistryAddr}

Native == "address(0)"
Token == "ERC20"
Assets == {Native, Token}

Secrets == {"s1", "s2"}

\* keccak256 of a secret, as the escrow computes it: injective, and never the
\* zero word.
Keccak(secret) == <<"keccak256", secret>>
ZeroHash == <<"zero", "">>
Hashlocks == {Keccak(s) : s \in Secrets}

\* Holders of the access token publicWithdraw asks for.
AccessTokenHolders == {Other}

InitialFunds == 2 * Amount + SafetyDeposit

-----------------------------------------------------------------------------
(* Immutables and timelocks *)

\* The stages of a Timelocks value: offsets from deployedAt, per leg.
Stages == {"SrcWithdrawal", "SrcPublicWithdrawal", "SrcCancellation",
           "DstWithdrawal", "DstPublicWithdrawal", "DstCancellation"}

\* A configuration with the same stages on both legs: withdrawal from 1,
\* public withdrawal from 2, cancellation from 3.
UniformTimelocks ==
    [deployedAt |-> 0,
     SrcWithdrawal |-> 1, SrcPublicWithdrawal |-> 2, SrcCancellation |-> 3,
     DstWithdrawal |-> 1, DstPublicWithdrawal |-> 2, DstCancellation |-> 3]

\* A configuration whose legs differ: the destination leg's stages start one
\* unit before the source leg's, so the destination leg cancels first.
SkewedTimelocks ==
    [deployedAt |-> 0,
     SrcWithdrawal |-> 1, SrcPublicWithdrawal |-> 2, SrcCancellation |-> 3,
     DstWithdrawal |-> 0, DstPublicWithdrawal |-> 1, DstCancellation |-> 2]

\* The opposite configuration: the source leg's stages start one unit before
\* the destination leg's, so the source leg cancels first.
SrcFirstTimelocks ==
    [deployedAt |-> 0,
     SrcWithdrawal |-> 0, SrcPublicWithdrawal |-> 1, SrcCancellation |-> 2,
     DstWithdrawal |-> 1, DstPublicWithdrawal |-> 2, DstCancellation |-> 3]

\* The configuration the maker's escrow-creation step builds, relative to the
\* deployment and in units of 1800 seconds: both legs allow withdrawal at
\* once, public withdrawal after 1800 s and cancellation after 3600 s.
ScriptTimelocks ==
    [deployedAt |-> 0,
     SrcWithdrawal |-> 0, SrcPublicWithdrawal |-> 1, SrcCancellation |-> 2,
     DstWithdrawal |-> 0, DstPublicWithdrawal |-> 1, DstCancellation |-> 2]

\* timelocks.get(stage): the time at which the stage starts.
TimelocksGet(tl, stage) == tl.deployedAt + tl[stage]

\* The descriptor each escrow instance was instantiated with.  The source
\* escrow serves one order (hashlock keccak(s1)), the destination escrow
\* another (hashlock keccak(s2)).
ImmutablesOf(e) ==
    [orderHash     |-> IF e = EscrowSrc THEN "order1" ELSE "order2",
     hashlock      |-> IF e = EscrowSrc THEN Keccak("s1") ELSE Keccak("s2"),
     maker         |-> Maker,
     taker         |-> Taker,
     token         |-> asset,
     amount        |-> Amount,
     safetyDeposit |-> SafetyDeposit,
     timelocks     |-> timelocks]

ImmutablesInputs == {ImmutablesOf(e) : e \in Escrows}

\* onlyValidImmutables: the descriptor hashes to the identity of the instance.
ValidImmutables(e, immutables) == immutables = ImmutablesOf(e)

-----------------------------------------------------------------------------
(* The chain as one value, and the outcome of (part of) a transaction *)

Chain ==
    [eth |-> eth, tok |-> tok, allowance |-> allowance,
     hashlockToSwapID |-> hashlockToSwapID,
     swapIDToHashlock |-> swapIDToHashlock,
     swaps |-> swaps]

\* A trace entry: a transfer made or an event emitted during a transaction.
Xfer(token, from, to, amount) ==
    [kind |-> "transfer", what |-> token, from |-> from, to |-> to,
     amount |-> amount, id |-> 0, hashlock |-> ZeroHash]
Emitted(name, by, id, hashlock) ==
    [kind |-> "event", what |-> name, from |-> by, to |-> by,
     amount |-> 0, id |-> id, hashlock |-> hashlock]

Ok(c, trace) == [ok |-> TRUE, err |-> "", c |-> c, trace |-> trace, ret |-> 0]
OkRet(c, trace, ret) ==
    [ok |-> TRUE, err |-> "", c |-> c, trace |-> trace, ret |-> ret]
Revert(c, err) == [ok |-> FALSE, err |-> err, c |-> c, trace |-> <<>>, ret |-> 0]

\* Sequencing: run F on the chain r left, unless r reverted.
Then(r, F(_)) ==
    IF r.ok
    THEN LET r2 == F(r.c)
         IN IF r2.ok THEN [r2 EXCEPT !.trace = r.trace \o r2.trace] ELSE r2
    ELSE r

-----------------------------------------------------------------------------
(* Native and ERC20 transfers *)

\* _ethTransfer / a call with value: fails when the sender's balance is short.
EthTransfer(c, from, to, amount) ==
    IF c.eth[from] < amount
    THEN Revert(c, "NativeTokenSendingFailure")
    ELSE Ok([c EXCEPT !.eth = [@ EXCEPT ![from] = @ - amount, ![to] = @ + amount]],
            <<Xfer(Native, from, to, amount)>>)

\* IERC20.safeTransfer
SafeTransfer(c, from, to, amount) ==
    IF c.tok[from] < amount
    THEN Revert(c, "SafeTransferFailed")
    ELSE Ok([c EXCEPT !.tok = [@ EXCEPT ![from] = @ - amount, ![to] = @ + amount]],
            <<Xfer(Token, from, to, amount)>>)

\* IERC20.safeTransferFrom, called by spender
SafeTransferFrom(c, spender, from, to, amount) ==
    IF c.tok[from] < amount \/ c.allowance[<<from, spender>>] < amount
    THEN Revert(c, "SafeTransferFromFailed")
    ELSE Ok([c EXCEPT !.tok = [@ EXCEPT ![from] = @ - amount, ![to] = @ + amount],
                      !.allowance[<<from, spender>>] = @ - amount],
            <<Xfer(Token, from, to, amount)>>)

\* IERC20.approve
ApproveToken(c, owner, spender, amount) ==
    Ok([c EXCEPT !.allowance[<<owner, spender>>] = amount], <<>>)

\* _uniTransfer: native or ERC20, out of the escrow's own balance
UniTransfer(c, token, from, to, amount) ==
    IF token = Native
    THEN EthTransfer(c, from, to, amount)
    ELSE SafeTransfer(c, from, to, amount)

-----------------------------------------------------------------------------
(* SwapCreator, the registry: only its interface is part of the repository.  *)
(* A record is created PENDING by newSwap, may be set READY, and is          *)
(* COMPLETED by claim (which pays the claimer) or refund (which pays the     *)
(* owner).  A Swap argument is resolved to the record created with the same  *)
(* claimer, timeouts, asset, value and nonce.                                *)

SwapKey(swap) ==
    <<swap.claimer, swap.timeout1, swap.timeout2, swap.asset, swap.value, swap.nonce>>

\* The identifier of the record a Swap argument names; 0 (bytes32(0)) if none.
SwapIDOf(c, swap) ==
    LET ids == {id \in 1..Len(c.swaps) : SwapKey(c.swaps[id].swap) = SwapKey(swap)}
    IN IF ids = {} THEN 0 ELSE CHOOSE id \in ids : TRUE

\* swaps(swapID): the stage of a record
RegistryStage(c, id) ==
    IF id \in 1..Len(c.swaps) THEN c.swaps[id].stage ELSE "INVALID"

RegistryNewSwap(c, sender, msgValue, claimCommitment, refundCommitment, claimer, timeout1, timeout2, token, value, nonce) ==
    LET swap == [owner |-> sender, claimer |-> claimer,
                 claimCommitment |-> claimCommitment,
                 refundCommitment |-> refundCommitment,
                 timeout1 |-> timeout1, timeout2 |-> timeout2,
                 asset |-> token, value |-> value, nonce |-> nonce]
        paid == EthTransfer(c, sender, RegistryAddr, msgValue)
    IN IF SwapIDOf(c, swap) # 0 THEN Revert(c, "SwapAlreadyExists")
       ELSE IF msgValue # (IF token = Native THEN value ELSE 0)
       THEN Revert(c, "InvalidValue")
       ELSE Then(Then(paid,
                 LAMBDA c1 : IF token = Native THEN Ok(c1, <<>>)
                             ELSE SafeTransferFrom(c1, RegistryAddr, sender,
                                                   RegistryAddr, value)),
                 LAMBDA c2 : OkRet([c2 EXCEPT !.swaps =
                                       Append(@, [swap |-> swap, stage |-> "PENDING"])],
                                   <<>>, Len(c2.swaps) + 1))

RegistrySetReady(c, sender, swap) ==
    LET id == SwapIDOf(c, swap)
    IN IF RegistryStage(c, id) # "PENDING" THEN Revert(c, "SwapNotPending")
       ELSE OkRet([c EXCEPT !.swaps[id].stage = "READY"], <<>>, id)

RegistryClaim(c, sender, swap, secret) ==
    LET id == SwapIDOf(c, swap)
    IN IF RegistryStage(c, id) \notin {"PENDING", "READY"}
       THEN Revert(c, "InvalidSwap")
       ELSE Then(OkRet([c EXCEPT !.swaps[id].stage = "COMPLETED"], <<>>, id),
                 LAMBDA c1 : UniTransfer(c1, c.swaps[id].swap.asset, RegistryAddr,
                                         c.swaps[id].swap.claimer,
                                         c.swaps[id].swap.value))

RegistryRefund(c, sender, swap, secret) ==
    LET id == SwapIDOf(c, swap)
    IN IF RegistryStage(c, id) \notin {"PENDING", "READY"}
       THEN Revert(c, "InvalidSwap")
       ELSE Then(OkRet([c EXCEPT !.swaps[id].stage = "COMPLETED"], <<>>, id),
                 LAMBDA c1 : UniTransfer(c1, c.swaps[id].swap.asset, RegistryAddr,
                                         c.swaps[id].swap.owner,
                                         c.swaps[id].swap.value))

-----------------------------------------------------------------------------
(* XMRSwapAdapter *)

\* createSwap recording the pair under the identifier it expects and carrying
\* on when the registry call fails.
AdapterCreateSwap_IgnoresRegistryFailure(c, sender, msgValue, hashlock, claimCommitment, refundCommitment, claimer, timeoutDuration1, timeoutDuration2, token, value, nonce) ==
    LET received == EthTransfer(c, sender, AdapterAddr, msgValue)
        pulled == Then(received,
                    LAMBDA c1 : IF token # Native
                                THEN Then(SafeTransferFrom(c1, AdapterAddr, sender,
                                                           AdapterAddr, value),
                                          LAMBDA c2 : ApproveToken(c2, AdapterAddr,
                                                                   RegistryAddr, value))
                                ELSE Ok(c1, <<>>))
    IN Then(pulled,
            LAMBDA c3 :
              LET created == RegistryNewSwap(c3, AdapterAddr, msgValue,
                                             claimCommitment, refundCommitment,
                                             claimer, timeoutDuration1,
                                             timeoutDuration2, token, value, nonce)
                  c4 == IF created.ok THEN created.c ELSE c3
                  swapID == Len(c3.swaps) + 1
              IN OkRet([c4 EXCEPT !.hashlockToSwapID[hashlock] = swapID,
                                  !.swapIDToHashlock[swapID] = hashlock],
                       (IF created.ok THEN created.trace ELSE <<>>)
                         \o <<Emitted("SwapCreated", AdapterAddr, swapID, hashlock)>>,
                       swapID))

AdapterCreateSwap(c, sender, msgValue, hashlock, claimCommitment, refundCommitment, claimer, timeoutDuration1, timeoutDuration2, token, value, nonce) ==
    LET received == EthTransfer(c, sender, AdapterAddr, msgValue)
        pulled == Then(received,
                    LAMBDA c1 : IF token # Native
                                THEN Then(SafeTransferFrom(c1, AdapterAddr, sender,
                                                           AdapterAddr, value),
                                          LAMBDA c2 : ApproveToken(c2, AdapterAddr,
                                                                   RegistryAddr, value))
                                ELSE Ok(c1, <<>>))
        created == Then(pulled,
                    LAMBDA c3 : RegistryNewSwap(c3, AdapterAddr, msgValue,
                                                claimCommitment, refundCommitment,
                                                claimer, timeoutDuration1,
                                                timeoutDuration2, token, value, nonce))
    IN Then(created,
            LAMBDA c4 : OkRet([c4 EXCEPT !.hashlockToSwapID[hashlock] = created.ret,
                                         !.swapIDToHashlock[created.ret] = hashlock],
                              <<Emitted("SwapCreated", AdapterAddr, created.ret, hashlock)>>,
                              created.ret))

AdapterSetSwapReady(c, sender, hashlock, swap) ==
    LET swapID == c.hashlockToSwapID[hashlock]
    IN IF swapID = 0 THEN Revert(c, "Swap not found")
       ELSE Then(RegistrySetReady(c, AdapterAddr, swap),
                 LAMBDA c1 : Ok(c1, <<Emitted("SwapReady", AdapterAddr, swapID, hashlock)>>))

\* claimSwap without the require on the looked-up identifier.
AdapterClaimSwap_NoLookupCheck(c, sender, hashlock, swap, secret) ==
    LET swapID == c.hashlockToSwapID[hashlock]
    IN Then(RegistryClaim(c, AdapterAddr, swap, secret),
            LAMBDA c1 : Ok(c1, <<Emitted("SwapClaimed", AdapterAddr, swapID, hashlock)>>))

AdapterClaimSwap(c, sender, hashlock, swap, secret) ==
    LET swapID == c.hashlockToSwapID[hashlock]
    IN IF swapID = 0 THEN Revert(c, "Swap not found")
       ELSE Then(RegistryClaim(c, AdapterAddr, swap, secret),
                 LAMBDA c1 : Ok(c1, <<Emitted("SwapClaimed", AdapterAddr, swapID, hashlock)>>))

AdapterRefundSwap(c, sender, hashlock, swap, secret) ==
    LET swapID == c.hashlockToSwapID[hashlock]
    IN IF swapID = 0 THEN Revert(c, "Swap not found")
       ELSE Then(RegistryRefund(c, AdapterAddr, swap, secret),
                 LAMBDA c1 : Ok(c1, <<Emitted("SwapRefunded", AdapterAddr, swapID, hashlock)>>))

AdapterGetSwapStatus(c, hashlock) ==
    LET swapID == c.hashlockToSwapID[hashlock]
    IN IF swapID = 0 THEN "Swap not found" ELSE RegistryStage(c, swapID)

-----------------------------------------------------------------------------
(* BaseEscrow: the modifiers the escrows inherit *)

OnlyValidSecret(secret, immutables) == Keccak(secret) = immutables.hashlock
OnlyAfter(start) == now >= start
OnlyBefore(stop) == now < stop
OnlyMaker(caller, immutables) == caller = immutables.maker
OnlyAccessTokenHolder(caller) == caller \in AccessTokenHolders

\* The commitments handed through to SwapCreator.newSwap
ClaimCommitment == "claimCommitment"
RefundCommitment == "refundCommitment"
ZeroCommitment == "bytes32(0)"

-----------------------------------------------------------------------------
(* XMREscrowSrc *)

\* withdraw declared without the onlyValidSecret modifier.
SrcWithdrawChecks_NoSecretCheck(this, caller, secret, immutables) ==
    IF ~ValidImmutables(this, immutables) THEN "InvalidImmutables"
    ELSE IF ~OnlyAfter(TimelocksGet(immutables.timelocks, "DstWithdrawal"))
    THEN "InvalidTime"
    ELSE IF ~OnlyBefore(TimelocksGet(immutables.timelocks, "DstCancellation"))
    THEN "InvalidTime"
    ELSE IF caller # immutables.maker /\ caller # immutables.taker
    THEN "InvalidCaller"
    ELSE ""

\* The first check of withdraw that fails, "" when all pass.
SrcWithdrawChecks(this, caller, secret, immutables) ==
    IF ~ValidImmutables(this, immutables) THEN "InvalidImmutables"
    ELSE IF ~OnlyValidSecret(secret, immutables) THEN "InvalidSecret"
    ELSE IF ~OnlyAfter(TimelocksGet(immutables.timelocks, "DstWithdrawal"))
    THEN "InvalidTime"
    ELSE IF ~OnlyBefore(TimelocksGet(immutables.timelocks, "DstCancellation"))
    THEN "InvalidTime"
    ELSE IF caller # immutables.maker /\ caller # immutables.taker
    THEN "InvalidCaller"
    ELSE ""

\* _withdraw sending the safety deposit along with the principal, to the taker.
Src_withdraw_DepositToTaker(c, this, secret, immutables) ==
    LET hashlock == immutables.hashlock
        swap == [owner |-> immutables.maker, claimer |-> immutables.taker,
                 claimCommitment |-> ZeroCommitment,
                 refundCommitment |-> ZeroCommitment,
                 timeout1 |-> TimelocksGet(immutables.timelocks, "DstWithdrawal"),
                 timeout2 |-> TimelocksGet(immutables.timelocks, "DstCancellation"),
                 asset |-> immutables.token, value |-> immutables.amount,
                 nonce |-> hashlock]
    IN Then(Then(Then(AdapterClaimSwap(c, this, hashlock, swap, secret),
            LAMBDA c1 : UniTransfer(c1, immutables.token, this, immutables.taker,
                                    immutables.amount)),
            LAMBDA c2 : EthTransfer(c2, this, immutables.taker, immutables.safetyDeposit)),
            LAMBDA c3 : Ok(c3, <<Emitted("EscrowWithdrawal", this, 0, hashlock)>>))

Src_withdraw(c, this, secret, immutables) ==
    LET hashlock == immutables.hashlock
        swap == [owner |-> immutables.maker, claimer |-> immutables.taker,
                 claimCommitment |-> ZeroCommitment,
                 refundCommitment |-> ZeroCommitment,
                 timeout1 |-> TimelocksGet(immutables.timelocks, "DstWithdrawal"),
                 timeout2 |-> TimelocksGet(immutables.timelocks, "DstCancellation"),
                 asset |-> immutables.token, value |-> immutables.amount,
                 nonce |-> hashlock]
    IN Then(Then(Then(AdapterClaimSwap(c, this, hashlock, swap, secret),
            LAMBDA c1 : UniTransfer(c1, immutables.token, this, immutables.taker,
                                    immutables.amount)),
            LAMBDA c2 : EthTransfer(c2, this, immutables.maker, immutables.safetyDeposit)),
            LAMBDA c3 : Ok(c3, <<Emitted("EscrowWithdrawal", this, 0, hashlock)>>))

SrcWithdraw(c, this, caller, secret, immutables) ==
    LET err == SrcWithdrawChecks(this, caller, secret, immutables)
    IN IF err # "" THEN Revert(c, err) ELSE Src_withdraw(c, this, secret, immutables)

SrcPublicWithdrawChecks(this, caller, secret, immutables) ==
    IF ~OnlyAccessTokenHolder(caller) THEN "InvalidCaller"
    ELSE IF ~ValidImmutables(this, immutables) THEN "InvalidImmutables"
    ELSE IF ~OnlyValidSecret(secret, immutables) THEN "InvalidSecret"
    ELSE IF ~OnlyAfter(TimelocksGet(immutables.timelocks, "DstPublicWithdrawal"))
    THEN "InvalidTime"
    ELSE IF ~OnlyBefore(TimelocksGet(immutables.timelocks, "DstCancellation"))
    THEN "InvalidTime"
    ELSE ""

SrcPublicWithdraw(c, this, caller, secret, immutables) ==
    LET err == SrcPublicWithdrawChecks(this, caller, secret, immutables)
    IN IF err # "" THEN Revert(c, err) ELSE Src_withdraw(c, this, secret, immutables)

SrcCancelChecks(this, caller, immutables) ==
    IF ~OnlyMaker(caller, immutables) THEN "InvalidCaller"
    ELSE IF ~ValidImmutables(this, immutables) THEN "InvalidImmutables"
    ELSE IF ~OnlyAfter(TimelocksGet(immutables.timelocks, "DstCancellation"))
    THEN "InvalidTime"
    ELSE ""

\* cancel returning the principal but keeping the safety deposit.
SrcCancelPayout_NoSafetyDeposit(c, this, immutables) ==
    Then(UniTransfer(c, immutables.token, this, immutables.maker, immutables.amount),
         LAMBDA c2 : Ok(c2, <<Emitted("EscrowCancelled", this, 0, immutables.hashlock)>>))

SrcCancelPayout(c, this, immutables) ==
    Then(Then(UniTransfer(c, immutables.token, this, immutables.maker, immutables.amount),
         LAMBDA c1 : EthTransfer(c1, this, immutables.maker, immutables.safetyDeposit)),
         LAMBDA c2 : Ok(c2, <<Emitted("EscrowCancelled", this, 0, immutables.hashlock)>>))

SrcCancel(c, this, caller, immutables) ==
    LET err == SrcCancelChecks(this, caller, immutables)
    IN IF err # "" THEN Revert(c, err) ELSE SrcCancelPayout(c, this, immutables)

\* deposit without its caller check.
SrcDepositChecks_AnyCaller(this, caller, immutables) ==
    IF ~ValidImmutables(this, immutables) THEN "InvalidImmutables"
    ELSE ""

SrcDepositChecks(this, caller, immutables) ==
    IF ~ValidImmutables(this, immutables) THEN "InvalidImmutables"
    ELSE IF caller # immutables.maker THEN "InvalidCaller"
    ELSE ""

\* deposit reaching the adapter through a low-level call whose failure it
\* does not look at.
SrcDepositBody_IgnoresAdapterFailure(c, this, caller, hashlock, claimCommitment, refundCommitment, immutables) ==
    LET pulled == IF immutables.token # Native
                  THEN Then(SafeTransferFrom(c, this, caller, this, immutables.amount),
                            LAMBDA c1 : ApproveToken(c1, this, AdapterAddr, immutables.amount))
                  ELSE Ok(c, <<>>)
    IN Then(Then(pulled,
            LAMBDA c2 : LET created == AdapterCreateSwap(c2, this,
                                IF immutables.token = Native THEN immutables.amount ELSE 0,
                                hashlock, claimCommitment, refundCommitment,
                                immutables.taker,
                                TimelocksGet(immutables.timelocks, "DstWithdrawal"),
                                TimelocksGet(immutables.timelocks, "DstCancellation"),
                                immutables.token, immutables.amount, hashlock)
                        IN IF created.ok THEN created ELSE Ok(c2, <<>>)),
            LAMBDA c3 : Ok(c3, <<Emitted("Deposit", this, 0, hashlock)>>))

\* The body of deposit, msg.value already credited to the escrow.
SrcDepositBody(c, this, caller, hashlock, claimCommitment, refundCommitment, immutables) ==
    LET pulled == IF immutables.token # Native
                  THEN Then(SafeTransferFrom(c, this, caller, this, immutables.amount),
                            LAMBDA c1 : ApproveToken(c1, this, AdapterAddr, immutables.amount))
                  ELSE Ok(c, <<>>)
    IN Then(Then(pulled,
            LAMBDA c2 : AdapterCreateSwap(c2, this,
                            IF immutables.token = Native THEN immutables.amount ELSE 0,
                            hashlock, claimCommitment, refundCommitment,
                            immutables.taker,
                            TimelocksGet(immutables.timelocks, "DstWithdrawal"),
                            TimelocksGet(immutables.timelocks, "DstCancellation"),
                            immutables.token, immutables.amount, hashlock)),
            LAMBDA c3 : Ok(c3, <<Emitted("Deposit", this, 0, hashlock)>>))

SrcDeposit(c, this, caller, msgValue, hashlock, claimCommitment, refundCommitment, immutables) ==
    LET err == SrcDepositChecks(this, caller, immutables)
    IN IF err # "" THEN Revert(c, err)
       ELSE Then(EthTransfer(c, caller, this, msgValue),
                 LAMBDA c0 : SrcDepositBody(c0, this, caller, hashlock, claimCommitment,
                                            refundCommitment, immutables))

-----------------------------------------------------------------------------
(* XMREscrowDst *)

DstDepositChecks(this, caller, immutables) ==
    IF ~ValidImmutables(this, immutables) THEN "InvalidImmutables"
    ELSE IF caller # immutables.taker THEN "InvalidCaller"
    ELSE ""

DstDepositBody(c, this, caller, hashlock, claimCommitment, refundCommitment, immutables) ==
    LET pulled == IF immutables.token # Native
                  THEN Then(SafeTransferFrom(c, this, caller, this, immutables.amount),
                            LAMBDA c1 : ApproveToken(c1, this, AdapterAddr, immutables.amount))
                  ELSE Ok(c, <<>>)
    IN Then(Then(pulled,
            LAMBDA c2 : AdapterCreateSwap(c2, this,
                            IF immutables.token = Native THEN immutables.amount ELSE 0,
                            hashlock, claimCommitment, refundCommitment,
                            immutables.maker,
                            TimelocksGet(immutables.timelocks, "DstWithdrawal"),
                            TimelocksGet(immutables.timelocks, "DstCancellation"),
                            immutables.token, immutables.amount, hashlock)),
            LAMBDA c3 : Ok(c3, <<Emitted("Deposit", this, 0, hashlock)>>))

DstDeposit(c, this, caller, msgValue, hashlock, claimCommitment, refundCommitment, immutables) ==
    LET err == DstDepositChecks(this, caller, immutables)
    IN IF err # "" THEN Revert(c, err)
       ELSE Then(EthTransfer(c, caller, this, msgValue),
                 LAMBDA c0 : DstDepositBody(c0, this, caller, hashlock, claimCommitment,
                                            refundCommitment, immutables))

DstWithdrawChecks(this, caller, secret, immutables) ==
    IF ~ValidImmutables(this, immutables) THEN "InvalidImmutables"
    ELSE IF ~OnlyValidSecret(secret, immutables) THEN "InvalidSecret"
    ELSE IF ~OnlyAfter(TimelocksGet(immutables.timelocks, "DstWithdrawal"))
    THEN "InvalidTime"
    ELSE IF ~OnlyBefore(TimelocksGet(immutables.timelocks, "DstCancellation"))
    THEN "InvalidTime"
    ELSE IF caller # immutables.maker /\ caller # immutables.taker
    THEN "InvalidCaller"
    ELSE ""

DstWithdrawBody(c, this, secret, immutables) ==
    LET hashlock == Keccak(secret)
        swap == [owner |-> immutables.taker, claimer |-> immutables.maker,
                 claimCommitment |-> ZeroCommitment,
                 refundCommitment |-> ZeroCommitment,
                 timeout1 |-> TimelocksGet(immutables.timelocks, "DstWithdrawal"),
                 timeout2 |-> TimelocksGet(immutables.timelocks, "DstCancellation"),
                 asset |-> immutables.token, value |-> immutables.amount,
                 nonce |-> hashlock]
    IN Then(Then(Then(AdapterClaimSwap(c, this, hashlock, swap, secret),
            LAMBDA c1 : UniTransfer(c1, immutables.token, this, immutables.maker,
                                    immutables.amount)),
            LAMBDA c2 : EthTransfer(c2, this, immutables.taker, immutables.safetyDeposit)),
            LAMBDA c3 : Ok(c3, <<Emitted("EscrowWithdrawal", this, 0, hashlock)>>))

DstWithdraw(c, this, caller, secret, immutables) ==
    LET err == DstWithdrawChecks(this, caller, secret, immutables)
    IN IF err # "" THEN Revert(c, err) ELSE DstWithdrawBody(c, this, secret, immutables)

\* createSwap, the older entry point: the checks it makes
DstCreateSwapChecks(this, caller, immutables) ==
    IF ~ValidImmutables(this, immutables) THEN "InvalidImmutables"
    ELSE IF caller # immutables.taker THEN "InvalidCaller"
    ELSE ""

\* createSwap approves the adapter but pulls no tokens and emits no event.
DstCreateSwapBody(c, this, hashlock, claimCommitment, refundCommitment, immutables) ==
    LET approved == IF immutables.token # Native
                    THEN ApproveToken(c, this, AdapterAddr, immutables.amount)
                    ELSE Ok(c, <<>>)
    IN Then(approved,
            LAMBDA c1 : AdapterCreateSwap(c1, this,
                            IF immutables.token = Native THEN immutables.amount ELSE 0,
                            hashlock, claimCommitment, refundCommitment,
                            immutables.maker,
                            TimelocksGet(immutables.timelocks, "DstWithdrawal"),
                            TimelocksGet(immutables.timelocks, "DstCancellation"),
                            immutables.token, immutables.amount, hashlock))

DstCreateSwap(c, this, caller, msgValue, hashlock, claimCommitment, refundCommitment, immutables) ==
    LET err == DstCreateSwapChecks(this, caller, immutables)
    IN IF err # "" THEN Revert(c, err)
       ELSE Then(EthTransfer(c, caller, this, msgValue),
                 LAMBDA c0 : DstCreateSwapBody(c0, this, hashlock, claimCommitment,
                                               refundCommitment, immutables))

\* setSwapReady declared without the onlyValidImmutables modifier.
DstSetSwapReadyChecks_NoImmutablesCheck(this, caller, immutables) ==
    IF caller # immutables.taker THEN "InvalidCaller"
    ELSE ""

DstSetSwapReadyChecks(this, caller, immutables) ==
    IF ~ValidImmutables(this, immutables) THEN "InvalidImmutables"
    ELSE IF caller # immutables.taker THEN "InvalidCaller"
    ELSE ""

DstSetSwapReady(c, this, caller, hashlock, immutables) ==
    LET err == DstSetSwapReadyChecks(this, caller, immutables)
        swap == [owner |-> immutables.taker, claimer |-> immutables.maker,
                 claimCommitment |-> ZeroCommitment,
                 refundCommitment |-> ZeroCommitment,
                 timeout1 |-> TimelocksGet(immutables.timelocks, "DstWithdrawal"),
                 timeout2 |-> TimelocksGet(immutables.timelocks, "DstCancellation"),
                 asset |-> immutables.token, value |-> immutables.amount,
                 nonce |-> hashlock]
    IN IF err # "" THEN Revert(c, err)
       ELSE AdapterSetSwapReady(c, this, hashlock, swap)

-----------------------------------------------------------------------------
(* The order coordinator: the scripts that carry an order from its creation *)
(* to the taker's claim.  Each script reads the order's JSON file, checks   *)
(* what the order must already record, performs its external action and     *)
(* then writes the whole record back.  For the coordinator the clock `now`  *)
(* is read in seconds.                                                      *)

\* ethers.sha256, the hash the scripts derive the order's hashlock with.
Sha256(secret) == <<"sha256", secret>>

\* order_<timestamp>: an order is identified by the second it was created in.
OrderIds == 0..(MaxOrders - 1)

\* The coordinator processes that may run a script at the same time.
Procs == {"p1", "p2"}

\* The scripts that work on an existing order.
Steps == {"fill", "createEscrow", "fundXmr", "claimXmr", "claimEth"}

\* The steps with an external action: escrow creation, counter-ledger
\* funding, counter-ledger claim, EVM withdraw.
ExternalSteps == Steps \ {"fill"}

\* What PUBLIC_KEY may hold when the taker fills an order.
PublicKeys == {"", Taker}

\* No file at the order's path.
NoOrder ==
    [exists |-> FALSE, secret |-> "", hashlock |-> ZeroHash, takerAddress |-> "",
     filledAt |-> FALSE, escrow |-> FALSE, monero |-> "none", secretRevealed |-> FALSE,
     ethClaimed |-> FALSE]

\* create order: the record written for a fresh secret.
NewOrder(secret) ==
    [NoOrder EXCEPT !.exists = TRUE, !.secret = secret, !.hashlock = Sha256(secret)]

\* fill order: the file must exist; nothing else about the order is looked at.
FillOrderChecks(order) ==
    IF ~order.exists THEN "Order file not found" ELSE ""

\* fill order: taker.address, taker.xmrAddress and filledAt.
FillOrderRecord(order, publicKey) ==
    [order EXCEPT !.takerAddress = publicKey, !.filledAt = TRUE]

\* maker create escrow: the order must record the taker's addresses.
MakerCreateEscrowChecks_NoFilledCheck(order) ==
    IF ~order.exists THEN "Order file not found" ELSE ""

MakerCreateEscrowChecks(order) ==
    IF ~order.exists THEN "Order file not found"
    ELSE IF order.takerAddress = "" \/ ~order.filledAt THEN "Order not filled by taker yet"
    ELSE ""

\* maker create escrow: order.escrow = {address, createdAt}.
MakerCreateEscrowRecord(order) ==
    [order EXCEPT !.escrow = TRUE]

\* taker fund XMR: the order must record the escrow's address.
TakerFundXmrChecks(order) ==
    IF ~order.exists THEN "Order file not found"
    ELSE IF ~order.escrow THEN "Escrow not created by maker yet"
    ELSE ""

\* taker fund XMR: order.monero = {txHash, amount, fundedAt}, in place of
\* whatever order.monero held.
TakerFundXmrRecord(order) ==
    [order EXCEPT !.monero = "funded"]

\* maker claim XMR: the order must record the funding transaction.
MakerClaimXmrChecks(order) ==
    IF ~order.exists THEN "Order file not found"
    ELSE IF order.monero = "none" THEN "Monero HTLC not funded by taker yet"
    ELSE IF order.secret = "" THEN "Secret not found in order"
    ELSE ""

\* maker claim XMR: monero.claimTxHash, monero.claimedAt, secretRevealed.
MakerClaimXmrRecord(order) ==
    [order EXCEPT !.monero = "claimed", !.secretRevealed = TRUE]

\* taker claim ETH: the reveal and the maker's claim transaction must be
\* recorded, and the order's secret must hash to the order's hashlock.
TakerClaimEthChecks_NoRevealCheck(order) ==
    IF ~order.exists THEN "Order not found"
    ELSE IF order.monero = "none" \/ ~order.escrow THEN "Order missing required components"
    ELSE IF Sha256(order.secret) # order.hashlock THEN "Secret verification failed"
    ELSE ""

TakerClaimEthChecks(order) ==
    IF ~order.exists THEN "Order not found"
    ELSE IF ~order.secretRevealed THEN "Secret has not been revealed yet"
    ELSE IF order.monero = "none" \/ ~order.escrow THEN "Order missing required components"
    ELSE IF order.monero # "claimed" THEN "MAKER hasn't claimed XMR yet"
    ELSE IF Sha256(order.secret) # order.hashlock THEN "Secret verification failed"
    ELSE ""

\* taker claim ETH: order.ethClaimed = {txHash, claimedAt}.
TakerClaimEthRecord(order) ==
    [order EXCEPT !.ethClaimed = TRUE]

\* What a step requires of the record it has read.
StepChecks(step, order) ==
    CASE step = "fill" -> FillOrderChecks(order)
      [] step = "createEscrow" -> MakerCreateEscrowChecks(order)
      [] step = "fundXmr" -> TakerFundXmrChecks(order)
      [] step = "claimXmr" -> MakerClaimXmrChecks(order)
      [] step = "claimEth" -> TakerClaimEthChecks(order)

\* What a step writes, from the record it has read.
StepRecord(step, order, publicKey) ==
    CASE step = "fill" -> FillOrderRecord(order, publicKey)
      [] step = "createEscrow" -> MakerCreateEscrowRecord(order)
      [] step = "fundXmr" -> TakerFundXmrRecord(order)
      [] step = "claimXmr" -> MakerClaimXmrRecord(order)
      [] step = "claimEth" -> TakerClaimEthRecord(order)

\* A process that runs no script.
NoStep == [pc |-> "idle", step |-> "", id |-> 0, order |-> NoOrder, err |-> ""]

-----------------------------------------------------------------------------
(* The state machine *)

\* The lifecycle of an escrow, read off the events it has emitted.
EscrowState(e) ==
    IF escrowLog[e] = <<>> THEN "Uninitialized"
    ELSE LET ev == escrowLog[e][Len(escrowLog[e])]
         IN IF ev = "Deposit" THEN "Funded"
            ELSE IF ev = "EscrowWithdrawal" THEN "Withdrawn"
            ELSE "Cancelled"

EventsOf(trace, e) ==
    LET mine == SelectSeq(trace, LAMBDA x : x.kind = "event" /\ x.from = e)
    IN [i \in 1..Len(mine) |-> mine[i].what]

Call(op, e, caller, msgValue, secret, hashlock, immutables) ==
    [op |-> op, escrow |-> e, caller |-> caller, value |-> msgValue,
     secret |-> secret, hashlock |-> hashlock, immutables |-> immutables,
     pre |-> EscrowState(e), ok |-> FALSE, err |-> "", trace |-> <<>>]

NoCall ==
    [op |-> "none", escrow |-> EscrowSrc, caller |-> Other, value |-> 0,
     secret |-> "", hashlock |-> ZeroHash, immutables |-> ImmutablesOf(EscrowSrc),
     pre |-> "Uninitialized", ok |-> FALSE, err |-> "", trace |-> <<>>]

\* No transaction is waiting for its result to be read.
Idle == last.op = "none"

\* A transaction takes effect as a whole or, reverting, not at all.
Transact(r, call) ==
    /\ Idle
    /\ r.ok => /\ Len(escrowLog[call.escrow]) < MaxEvents
               /\ Len(r.c.swaps) <= MaxSwaps
    /\ eth' = IF r.ok THEN r.c.eth ELSE eth
    /\ tok' = IF r.ok THEN r.c.tok ELSE tok
    /\ allowance' = IF r.ok THEN r.c.allowance ELSE allowance
    /\ hashlockToSwapID' = IF r.ok THEN r.c.hashlockToSwapID ELSE hashlockToSwapID
    /\ swapIDToHashlock' = IF r.ok THEN r.c.swapIDToHashlock ELSE swapIDToHashlock
    /\ swaps' = IF r.ok THEN r.c.swaps ELSE swaps
    /\ escrowLog' = IF r.ok
                    THEN [escrowLog EXCEPT ![call.escrow] = @ \o EventsOf(r.trace, call.escrow)]
                    ELSE escrowLog
    /\ last' = [call EXCEPT !.ok = r.ok, !.err = r.err, !.trace = r.trace]
    /\ UNCHANGED <<now, asset, deployed, timelocks, xmr, coordVars>>

MsgValues == {0, SafetyDeposit, Amount + SafetyDeposit, 2 * Amount + SafetyDeposit}

InitChain ==
    /\ now = 0
    /\ eth = [a \in Accounts |-> IF a \in Users THEN InitialFunds ELSE 0]
    /\ tok = [a \in Accounts |-> IF a \in Users /\ asset = Token THEN InitialFunds ELSE 0]
    /\ allowance = [p \in Accounts \X Accounts |-> 0]
    /\ hashlockToSwapID = [h \in Hashlocks |-> 0]
    /\ swapIDToHashlock = [id \in 1..(MaxSwaps + 1) |-> ZeroHash]
    /\ swaps = <<>>
    /\ escrowLog = [e \in Escrows |-> <<>>]
    /\ last = NoCall
    /\ xmr = "none"
    /\ orderFiles = [id \in OrderIds |-> NoOrder]
    /\ proc = [p \in Procs |-> NoStep]
    /\ sent = [id \in OrderIds |-> [step \in ExternalSteps |-> 0]]

\* One escrow, of either kind, for a swap of the native currency.
Init ==
    /\ asset = Native
    /\ timelocks = UniformTimelocks
    /\ \E e \in Escrows : deployed = {e}
    /\ InitChain

\* One escrow, of either kind, for a swap of an ERC20 token.
InitToken ==
    /\ asset = Token
    /\ timelocks = UniformTimelocks
    /\ \E e \in Escrows : deployed = {e}
    /\ InitChain

\* One escrow, of either kind, for a swap of the native currency whose legs
\* have different stages.
InitSkew ==
    /\ asset = Native
    /\ timelocks \in {SkewedTimelocks, SrcFirstTimelocks}
    /\ \E e \in Escrows : deployed = {e}
    /\ InitChain

Deposit(e, caller, msgValue, hashlock, immutables) ==
    /\ msgValue <= eth[caller]
    /\ Transact(IF e = EscrowSrc
                THEN SrcDeposit(Chain, e, caller, msgValue, hashlock, ClaimCommitment,
                                RefundCommitment, immutables)
                ELSE DstDeposit(Chain, e, caller, msgValue, hashlock, ClaimCommitment,
                                RefundCommitment, immutables),
                Call("deposit", e, caller, msgValue, "", hashlock, immutables))

Withdraw(e, caller, secret, immutables) ==
    Transact(IF e = EscrowSrc
             THEN SrcWithdraw(Chain, e, caller, secret, immutables)
             ELSE DstWithdraw(Chain, e, caller, secret, immutables),
             Call("withdraw", e, caller, 0, secret, ZeroHash, immutables))

PublicWithdraw(e, caller, secret, immutables) ==
    /\ e = EscrowSrc
    /\ Transact(SrcPublicWithdraw(Chain, e, caller, secret, immutables),
                Call("publicWithdraw", e, caller, 0, secret, ZeroHash, immutables))

Cancel(e, caller, immutables) ==
    /\ e = EscrowSrc
    /\ Transact(SrcCancel(Chain, e, caller, immutables),
                Call("cancel", e, caller, 0, "", ZeroHash, immutables))

\* XMREscrowDst.createSwap
CreateSwap(e, caller, msgValue, hashlock, immutables) ==
    /\ e = EscrowDst
    /\ msgValue <= eth[caller]
    /\ Transact(DstCreateSwap(Chain, e, caller, msgValue, hashlock, ClaimCommitment,
                               RefundCommitment, immutables),
                Call("createSwap", e, caller, msgValue, "", hashlock, immutables))

\* XMREscrowDst.setSwapReady
SetSwapReady(e, caller, hashlock, immutables) ==
    /\ e = EscrowDst
    /\ Transact(DstSetSwapReady(Chain, e, caller, hashlock, immutables),
                Call("setSwapReady", e, caller, 0, "", hashlock, immutables))

\* The Swap arguments a caller of the adapter can put together: the records
\* of the registry, and one the registry has never seen.
UnknownSwap ==
    [owner |-> Other, claimer |-> Other, claimCommitment |-> ZeroCommitment,
     refundCommitment |-> ZeroCommitment, timeout1 |-> 0, timeout2 |-> 0,
     asset |-> asset, value |-> Amount, nonce |-> ZeroHash]

SwapInputs == {swaps[id].swap : id \in 1..Len(swaps)} \cup {UnknownSwap}

\* XMRSwapAdapter.createSwap called by an account of its own accord, which
\* names itself the claimer.
AdapterCreate(e, caller, hashlock, nonce) ==
    /\ asset = Native
    /\ Amount <= eth[caller]
    /\ Transact(AdapterCreateSwap(Chain, caller, Amount, hashlock, ClaimCommitment,
                                   RefundCommitment, caller,
                                   TimelocksGet(timelocks, "DstWithdrawal"),
                                   TimelocksGet(timelocks, "DstCancellation"),
                                   asset, Amount, nonce),
                Call("adapter.createSwap", e, caller, Amount, "", hashlock,
                     ImmutablesOf(e)))

AdapterSetReady(e, caller, hashlock, swap) ==
    Transact(AdapterSetSwapReady(Chain, caller, hashlock, swap),
             Call("adapter.setSwapReady", e, caller, 0, "", hashlock, ImmutablesOf(e)))

AdapterClaim(e, caller, hashlock, swap, secret) ==
    Transact(AdapterClaimSwap(Chain, caller, hashlock, swap, secret),
             Call("adapter.claimSwap", e, caller, 0, secret, hashlock, ImmutablesOf(e)))

AdapterRefund(e, caller, hashlock, swap, secret) ==
    Transact(AdapterRefundSwap(Chain, caller, hashlock, swap, secret),
             Call("adapter.refundSwap", e, caller, 0, secret, hashlock, ImmutablesOf(e)))

\* getSwapStatus is a view: it returns a stage or reverts, and writes nothing.
AdapterStatus(e, caller, hashlock) ==
    Transact(IF AdapterGetSwapStatus(Chain, hashlock) = "Swap not found"
             THEN Revert(Chain, "Swap not found")
             ELSE Ok(Chain, <<>>),
             Call("adapter.getSwapStatus", e, caller, 0, "", hashlock, ImmutablesOf(e)))

\* receive(): anybody may send native currency to an escrow.
Receive(e, caller, msgValue) ==
    /\ Idle
    /\ msgValue <= eth[caller]
    /\ eth[e] + msgValue <= 2 * (Amount + SafetyDeposit)
    /\ eth' = [eth EXCEPT ![caller] = @ - msgValue, ![e] = @ + msgValue]
    /\ last' = [Call("receive", e, caller, msgValue, "", ZeroHash, ImmutablesOf(e))
                 EXCEPT !.ok = TRUE, !.trace = <<Xfer(Native, caller, e, msgValue)>>]
    /\ UNCHANGED <<now, asset, deployed, timelocks, tok, allowance, hashlockToSwapID,
                   swapIDToHashlock, swaps, escrowLog, xmr, coordVars>>

\* The depositor grants the escrow the allowance deposit pulls the tokens with.
ApproveEscrow(e, caller) ==
    /\ Idle
    /\ asset = Token
    /\ allowance[<<caller, e>>] = 0
    /\ allowance' = [allowance EXCEPT ![<<caller, e>>] = Amount]
    /\ last' = [Call("approve", e, caller, 0, "", ZeroHash, ImmutablesOf(e))
                 EXCEPT !.ok = TRUE]
    /\ UNCHANGED <<now, asset, deployed, timelocks, eth, tok, hashlockToSwapID, swapIDToHashlock,
                   swaps, escrowLog, xmr, coordVars>>

\* Anybody may send tokens to an escrow.
TokenTransfer(e, caller) ==
    /\ Idle
    /\ asset = Token
    /\ tok[caller] >= Amount
    /\ tok[e] < Amount
    /\ tok' = [tok EXCEPT ![caller] = @ - Amount, ![e] = @ + Amount]
    /\ last' = [Call("transfer", e, caller, 0, "", ZeroHash, ImmutablesOf(e))
                 EXCEPT !.ok = TRUE, !.trace = <<Xfer(Token, caller, e, Amount)>>]
    /\ UNCHANGED <<now, asset, deployed, timelocks, eth, allowance, hashlockToSwapID,
                   swapIDToHashlock, swaps, escrowLog, xmr, coordVars>>

\* The caller reads the result of the latest transaction.
Return ==
    /\ ~Idle
    /\ last' = NoCall
    /\ UNCHANGED <<now, asset, deployed, timelocks, eth, tok, allowance, hashlockToSwapID,
                   swapIDToHashlock, swaps, escrowLog, xmr, coordVars>>

\* Time passes.
Tick ==
    /\ Idle
    /\ now < MaxTime
    /\ now' = now + 1
    /\ UNCHANGED <<asset, deployed, timelocks, eth, tok, allowance, hashlockToSwapID,
                   swapIDToHashlock, swaps, escrowLog, last, xmr, coordVars>>

\* The calls of the escrows' own interface.
EscrowCall ==
    \/ \E e \in deployed, caller \in Users, msgValue \in MsgValues,
          hashlock \in Hashlocks, immutables \in ImmutablesInputs :
            Deposit(e, caller, msgValue, hashlock, immutables)
    \/ \E e \in deployed, caller \in Users, secret \in Secrets,
          immutables \in ImmutablesInputs :
            Withdraw(e, caller, secret, immutables)
    \/ \E e \in deployed, caller \in Users, secret \in Secrets,
          immutables \in ImmutablesInputs :
            PublicWithdraw(e, caller, secret, immutables)
    \/ \E e \in deployed, caller \in Users, immutables \in ImmutablesInputs :
            Cancel(e, caller, immutables)

Next ==
    \/ EscrowCall
    \/ \E e \in deployed, caller \in Users :
            Receive(e, caller, Amount + SafetyDeposit)
    \/ Return
    \/ Tick

\* The calls XMREscrowDst offers besides deposit and withdraw.
DstCall ==
    \/ \E e \in deployed, caller \in Users, hashlock \in Hashlocks,
          immutables \in ImmutablesInputs :
            CreateSwap(e, caller, Amount, hashlock, immutables)
    \/ \E e \in deployed, caller \in Users, hashlock \in Hashlocks,
          immutables \in ImmutablesInputs :
            SetSwapReady(e, caller, hashlock, immutables)

\* The adapter's functions are external and unrestricted: a third party
\* calls them directly.
AdapterCall ==
    \/ \E e \in deployed, hashlock \in Hashlocks, nonce \in Hashlocks :
            AdapterCreate(e, Other, hashlock, nonce)
    \/ \E e \in deployed, hashlock \in Hashlocks, swap \in SwapInputs :
            AdapterSetReady(e, Other, hashlock, swap)
    \/ \E e \in deployed, hashlock \in Hashlocks, swap \in SwapInputs :
            AdapterClaim(e, Other, hashlock, swap, "s1")
    \/ \E e \in deployed, hashlock \in Hashlocks, swap \in SwapInputs :
            AdapterRefund(e, Other, hashlock, swap, "s1")
    \/ \E e \in deployed, hashlock \in Hashlocks :
            AdapterStatus(e, Other, hashlock)

NextEscrows ==
    \/ Next
    \/ DstCall

\* The escrow used as intended: its depositor funds it, under either
\* hashlock, and the taker withdraws.
EscrowUse ==
    \/ \E e \in deployed, hashlock \in Hashlocks,
          msgValue \in {Amount + SafetyDeposit, 2 * Amount + SafetyDeposit} :
            Deposit(e, IF e = EscrowSrc THEN Maker ELSE Taker, msgValue, hashlock,
                    ImmutablesOf(e))
    \/ \E e \in deployed, secret \in Secrets :
            Withdraw(e, Taker, secret, ImmutablesOf(e))

NextAdapter ==
    \/ EscrowUse
    \/ AdapterCall
    \/ Return
    \/ Tick

NextToken ==
    \/ EscrowCall
    \/ \E e \in deployed : Receive(e, Other, Amount + SafetyDeposit)
    \/ \E e \in deployed, caller \in {Maker, Taker} : ApproveEscrow(e, caller)
    \/ \E e \in deployed : TokenTransfer(e, Other)
    \/ Return
    \/ Tick

\* Swaps of the native currency
Spec == Init /\ [][Next]_vars

\* Swaps of an ERC20 token
SpecToken == InitToken /\ [][NextToken]_vars

\* Swaps of the native currency under timelocks that differ between the legs
SpecSkew == InitSkew /\ [][Next]_vars

\* Swaps of the native currency, with every external function of both escrows
SpecEscrows == Init /\ [][NextEscrows]_vars

\* Swaps of the native currency, with a third party calling the adapter
SpecAdapter == Init /\ [][NextAdapter]_vars

-----------------------------------------------------------------------------
(* One order, both legs: the maker's principal in XMREscrowSrc on the EVM
   chain, the taker's funds on the counter-ledger.  The maker holds the secret
   and discloses it by claiming on the counter-ledger. *)

\* The secret of the order; the source escrow's hashlock commits to it.
SwapSecret == "s1"

\* The counter-ledger leg is the destination leg of the order's timelocks.
CounterLegCancellation == TimelocksGet(timelocks, "DstCancellation")

\* The secret is public once a claim on either ledger has carried it.
Revealed ==
    \/ xmr = "claimed"
    \/ \E i \in 1..Len(escrowLog[EscrowSrc]) : escrowLog[EscrowSrc][i] = "EscrowWithdrawal"

\* Who can put the secret into a call.
Knows(caller, secret) == secret = SwapSecret => (caller = Maker \/ Revealed)

\* The taker locks the counter-ledger funds once the maker's escrow exists
\* and the swap is registered under the order's hashlock.
XmrFund ==
    /\ Idle
    /\ xmr = "none"
    /\ EscrowState(EscrowSrc) = "Funded"
    /\ hashlockToSwapID[ImmutablesOf(EscrowSrc).hashlock] # 0
    /\ xmr' = "locked"
    /\ UNCHANGED <<now, asset, deployed, timelocks, eth, tok, allowance, hashlockToSwapID,
                   swapIDToHashlock, swaps, escrowLog, last, coordVars>>

\* The maker claims the counter-ledger funds with the secret, before the
\* counter-leg's cancellation.
XmrClaim ==
    /\ Idle
    /\ xmr = "locked"
    /\ now < CounterLegCancellation
    /\ xmr' = "claimed"
    /\ UNCHANGED <<now, asset, deployed, timelocks, eth, tok, allowance, hashlockToSwapID,
                   swapIDToHashlock, swaps, escrowLog, last, coordVars>>

\* The taker takes the counter-ledger funds back once the counter-leg's
\* cancellation has started.
XmrRefund ==
    /\ Idle
    /\ xmr = "locked"
    /\ now >= CounterLegCancellation
    /\ xmr' = "refunded"
    /\ UNCHANGED <<now, asset, deployed, timelocks, eth, tok, allowance, hashlockToSwapID,
                   swapIDToHashlock, swaps, escrowLog, last, coordVars>>

InitSwap ==
    /\ asset = Native
    /\ timelocks = ScriptTimelocks
    /\ deployed = {EscrowSrc}
    /\ InitChain

NextSwap ==
    \/ \E caller \in Users, msgValue \in MsgValues, hashlock \in Hashlocks,
          immutables \in ImmutablesInputs :
            Deposit(EscrowSrc, caller, msgValue, hashlock, immutables)
    \/ \E caller \in Users, secret \in Secrets, immutables \in ImmutablesInputs :
            Knows(caller, secret) /\ Withdraw(EscrowSrc, caller, secret, immutables)
    \/ \E caller \in Users, secret \in Secrets, immutables \in ImmutablesInputs :
            Knows(caller, secret) /\ PublicWithdraw(EscrowSrc, caller, secret, immutables)
    \/ \E caller \in Users, immutables \in ImmutablesInputs :
            Cancel(EscrowSrc, caller, immutables)
    \/ XmrFund
    \/ XmrClaim
    \/ XmrRefund
    \/ Return
    \/ Tick

\* One order from escrow creation to settlement
SpecSwap == InitSwap /\ [][NextSwap]_vars

\* The parties do not give up and the ledgers do not starve them: a
\* transaction's result is read, the maker's cancel of the escrow is mined
\* however many other calls come in, and so is the taker's refund on the
\* counter-ledger once that is open; and time passes.
SwapFairness ==
    /\ WF_vars(Return)
    /\ SF_vars(Tick)
    /\ SF_vars(Cancel(EscrowSrc, Maker, ImmutablesOf(EscrowSrc)))
    /\ SF_vars(XmrRefund)

\* One order whose parties keep trying to get their funds back
SpecSwapLive == SpecSwap /\ SwapFairness

-----------------------------------------------------------------------------
(* XMREscrowFactory: minimal proxies of one XMREscrowSrc implementation,
   deployed with CREATE2 under a salt the caller supplies.  In the
   specification below `deployed` holds the addresses that carry code. *)

FactoryAddr == "XMREscrowFactory"

\* srcImplementation: set once by the constructor, immutable afterwards.
SrcImplementation == "srcImplementation"

\* _proxyBytecode(): the minimal-proxy prefix, the implementation, the suffix.
ProxyBytecode ==
    <<"3d602d80600a3d3981f3363d3d373d3d3d363d73", SrcImplementation,
      "5af43d82803e903d91602b57fd5bf3">>

\* keccak256 of a byte string
Keccak256(bytes) == <<"keccak256", bytes>>

\* The address CREATE2 gives code: a hash of 0xff, deployer, salt and code hash.
Create2Address(deployer, salt, bytecodeHash) ==
    Keccak256(<<"0xff", deployer, salt, bytecodeHash>>)

\* Create2.computeAddress(salt, bytecodeHash), the deployer being the caller
Create2ComputeAddress(this, salt, bytecodeHash) ==
    Create2Address(this, salt, bytecodeHash)

\* Create2.deploy(amount, salt, bytecode): fails when the address has code.
Create2Deploy(code, this, amount, salt, bytecode) ==
    LET addr == Create2Address(this, salt, Keccak256(bytecode))
    IN IF addr \in code
       THEN [ok |-> FALSE, err |-> "Create2FailedDeployment", code |-> code]
       ELSE [ok |-> TRUE, err |-> "", code |-> code \cup {addr}]

\* createSrcEscrow putting the proxy wherever CREATE2 points, code or no code
\* there, and returning the address without looking at the outcome.
FactoryCreateSrcEscrow_Unchecked(code, salt) ==
    [ok |-> TRUE, err |-> "",
     code |-> code \cup {Create2Address(FactoryAddr, salt, Keccak256(ProxyBytecode))}]

FactoryCreateSrcEscrow(code, salt) ==
    Create2Deploy(code, FactoryAddr, 0, salt, ProxyBytecode)

\* addressOfSrcEscrow hashing the implementation's address in place of the
\* proxy bytecode.
FactoryAddressOfSrcEscrow_ImplementationHash(salt) ==
    Create2ComputeAddress(FactoryAddr, salt, Keccak256(SrcImplementation))

FactoryAddressOfSrcEscrow(salt) ==
    Create2ComputeAddress(FactoryAddr, salt, Keccak256(ProxyBytecode))

\* The salt of an escrow is the hash of its Immutables.
ImmutablesHash(immutables) == <<"hash", immutables>>

\* The address at which the model's XMREscrowSrc account lives.
SrcInstanceAddress == FactoryAddressOfSrcEscrow(ImmutablesHash(ImmutablesOf(EscrowSrc)))

InitFactory ==
    /\ asset = Native
    /\ timelocks = UniformTimelocks
    /\ deployed = {}
    /\ InitChain

\* createSrcEscrow(salt), the salt being the hash of the caller's Immutables
CreateSrcEscrow(caller, immutables) ==
    LET r == FactoryCreateSrcEscrow(deployed, ImmutablesHash(immutables))
    IN /\ Idle
       /\ deployed' = IF r.ok THEN r.code ELSE deployed
       /\ last' = [Call("createSrcEscrow", EscrowSrc, caller, 0, "", ZeroHash, immutables)
                    EXCEPT !.ok = r.ok, !.err = r.err]
       /\ UNCHANGED <<now, asset, timelocks, eth, tok, allowance, hashlockToSwapID,
                      swapIDToHashlock, swaps, escrowLog, xmr, coordVars>>

\* The calls of the instance created for the source escrow's Immutables.
InstanceCall ==
    \/ \E caller \in Users, msgValue \in MsgValues, immutables \in ImmutablesInputs :
            /\ SrcInstanceAddress \in deployed
            /\ Deposit(EscrowSrc, caller, msgValue, immutables.hashlock, immutables)
    \/ \E caller \in Users, secret \in Secrets, immutables \in ImmutablesInputs :
            /\ SrcInstanceAddress \in deployed
            /\ Withdraw(EscrowSrc, caller, secret, immutables)
    \/ \E caller \in Users, immutables \in ImmutablesInputs :
            /\ SrcInstanceAddress \in deployed
            /\ Cancel(EscrowSrc, caller, immutables)

NextFactory ==
    \/ \E caller \in Users, immutables \in ImmutablesInputs :
            CreateSrcEscrow(caller, immutables)
    \/ InstanceCall
    \/ \E caller \in Users : Receive(EscrowSrc, caller, Amount + SafetyDeposit)
    \/ Return
    \/ Tick

\* The factory and the instance it creates for the source escrow
SpecFactory == InitFactory /\ [][NextFactory]_vars

-----------------------------------------------------------------------------
(* The coordinator's steps.  A script is one process: it reads the order     *)
(* file, checks it and performs its external action (BeginStep), and writes  *)
(* the record once the action has gone through (FinishStep).  Nothing keeps  *)
(* a second process from starting on the same order in between.              *)

\* Everything on the two ledgers, which no script step of the model changes.
ledgerVars == <<asset, deployed, timelocks, eth, tok, allowance, hashlockToSwapID,
                swapIDToHashlock, swaps, escrowLog, last, xmr>>

\* A script has thrown and its process has not exited yet.
Thrown == \E p \in Procs : proc[p].pc = "threw"

\* create order: the order id is the second the script runs in, and the
\* record is written to the order's path whatever the path holds.
CreateOrder(secret) ==
    /\ ~Thrown
    /\ now \in OrderIds
    /\ orderFiles' = [orderFiles EXCEPT ![now] = NewOrder(secret)]
    /\ UNCHANGED <<now, proc, sent, ledgerVars>>

\* The catch block of a script logs and rethrows: the order file is not written.
StepThrows_WritesRecord(files, step, id) ==
    [files EXCEPT ![id] = StepRecord(step, files[id], Taker)]

StepThrows(files, step, id) == files

\* A script starts: it reads the order, checks it and submits its external
\* action, which either goes through or throws.
BeginStep(p, step, id) ==
    LET order == orderFiles[id]
        err == StepChecks(step, order)
        thrown(e) == /\ proc' = [proc EXCEPT ![p] = [NoStep EXCEPT !.pc = "threw", !.step = step,
                                                                   !.id = id, !.err = e]]
                     /\ orderFiles' = StepThrows(orderFiles, step, id)
                     /\ UNCHANGED sent
    IN /\ ~Thrown
       /\ proc[p].pc = "idle"
       /\ IF err # ""
          THEN thrown(err)
          ELSE \/ /\ step \in ExternalSteps => sent[id][step] < MaxSends
                  /\ proc' = [proc EXCEPT ![p] = [pc |-> "acted", step |-> step, id |-> id,
                                                  order |-> order, err |-> ""]]
                  /\ sent' = IF step \in ExternalSteps
                             THEN [sent EXCEPT ![id][step] = @ + 1]
                             ELSE sent
                  /\ UNCHANGED orderFiles
               \/ /\ step \in ExternalSteps
                  /\ thrown("external action failed")
       /\ UNCHANGED <<now, ledgerVars>>

\* The script writes the record it read, with its own result added.
FinishStep(p, publicKey) ==
    /\ ~Thrown
    /\ proc[p].pc = "acted"
    /\ orderFiles' = [orderFiles EXCEPT
                        ![proc[p].id] = StepRecord(proc[p].step, proc[p].order, publicKey)]
    /\ proc' = [proc EXCEPT ![p] = NoStep]
    /\ UNCHANGED <<now, sent, ledgerVars>>

\* The script ends after its external action and before its write: the
\* process is killed, or a later call of the script throws.
AbortStep(p) ==
    /\ ~Thrown
    /\ proc[p].pc = "acted"
    /\ proc' = [proc EXCEPT ![p] = NoStep]
    /\ UNCHANGED <<now, orderFiles, sent, ledgerVars>>

\* A script that has thrown exits: main().catch sets the exit code.
ExitStep(p) ==
    /\ proc[p].pc = "threw"
    /\ proc' = [proc EXCEPT ![p] = NoStep]
    /\ UNCHANGED <<now, orderFiles, sent, ledgerVars>>

\* The clock of the coordinator's host moves on by a second.
ClockTick ==
    /\ ~Thrown
    /\ now < MaxOrders - 1
    /\ now' = now + 1
    /\ UNCHANGED <<coordVars, ledgerVars>>

InitCoordinator ==
    /\ asset = Native
    /\ timelocks = ScriptTimelocks
    /\ deployed = {EscrowSrc}
    /\ InitChain

NextCoordinator ==
    \/ CreateOrder(SwapSecret)
    \/ \E p \in Procs, step \in Steps, id \in OrderIds : BeginStep(p, step, id)
    \/ \E p \in Procs, publicKey \in PublicKeys : FinishStep(p, publicKey)
    \/ \E p \in Procs : AbortStep(p)
    \/ \E p \in Procs : ExitStep(p)

\* The coordinator scripts, run by two processes on the order of one second
SpecCoordinator == InitCoordinator /\ [][NextCoordinator]_vars

\* Orders created in different seconds and in the same second, up to the
\* creation of their escrows.
NextOrders ==
    \/ \E secret \in Secrets : CreateOrder(secret)
    \/ \E p \in Procs, step \in {"fill", "createEscrow"}, id \in OrderIds : BeginStep(p, step, id)
    \/ \E p \in Procs, publicKey \in PublicKeys : FinishStep(p, publicKey)
    \/ \E p \in Procs : AbortStep(p)
    \/ \E p \in Procs : ExitStep(p)
    \/ ClockTick

\* The first steps of the coordinator on up to MaxOrders order files
SpecOrders == InitCoordinator /\ [][NextOrders]_vars

-----------------------------------------------------------------------------
(* The vocabulary of the claims *)

\* The stages of the leg an escrow serves.
WithdrawalStart(e, immutables) ==
    TimelocksGet(immutables.timelocks,
                 IF e = EscrowSrc THEN "SrcWithdrawal" ELSE "DstWithdrawal")
PublicWithdrawalStart(e, immutables) ==
    TimelocksGet(immutables.timelocks,
                 IF e = EscrowSrc THEN "SrcPublicWithdrawal" ELSE "DstPublicWithdrawal")
CancellationStart(e, immutables) ==
    TimelocksGet(immutables.timelocks,
                 IF e = EscrowSrc THEN "SrcCancellation" ELSE "DstCancellation")

\* Who funds a leg, and who is paid from it.
Depositor(e, immutables) == IF e = EscrowSrc THEN immutables.maker ELSE immutables.taker
Counterparty(e, immutables) == IF e = EscrowSrc THEN immutables.taker ELSE immutables.maker

\* The transfers an account made during a transaction, in order.
TransfersFrom(trace, a) == SelectSeq(trace, LAMBDA x : x.kind = "transfer" /\ x.from = a)

CommitOK(secret, immutables) == Keccak(secret) = immutables.hashlock
InWithdrawWindow(e, immutables) ==
    now >= WithdrawalStart(e, immutables) /\ now < CancellationStart(e, immutables)

\* The window withdraw checks the time against, on either escrow.
InEnforcedWithdrawWindow(immutables) ==
    /\ OnlyAfter(TimelocksGet(immutables.timelocks, "DstWithdrawal"))
    /\ OnlyBefore(TimelocksGet(immutables.timelocks, "DstCancellation"))

\* Everything on chain: balances, allowances, adapter, registry, escrow events.
chainVars == <<eth, tok, allowance, hashlockToSwapID, swapIDToHashlock, swaps, escrowLog>>

EscrowOps == {"deposit", "withdraw", "publicWithdraw", "cancel"}

-----------------------------------------------------------------------------
(* C1 *)

\* C1: a swap is never half-executed.  Once the maker has claimed the
\* counter-ledger funds the taker can complete the EVM leg (withdraw with the
\* disclosed secret succeeds while the window is open); once the taker has
\* taken the counter-ledger funds back the maker can refund the EVM leg
\* (cancel succeeds from CancellationStart on); and no party ends up with
\* both the EVM principal and the counter-ledger funds.
C1_SwapIsAtomic ==
    LET I == ImmutablesOf(EscrowSrc)
    IN /\ (/\ xmr = "claimed"
           /\ EscrowState(EscrowSrc) = "Funded"
           /\ InWithdrawWindow(EscrowSrc, I))
          => SrcWithdraw(Chain, EscrowSrc, Taker, SwapSecret, I).ok
       /\ (/\ xmr = "refunded"
           /\ EscrowState(EscrowSrc) = "Funded"
           /\ now >= CancellationStart(EscrowSrc, I))
          => SrcCancel(Chain, EscrowSrc, Maker, I).ok
       /\ ~(xmr = "claimed" /\ EscrowState(EscrowSrc) = "Cancelled")
       /\ ~(xmr = "refunded" /\ EscrowState(EscrowSrc) = "Withdrawn")

-----------------------------------------------------------------------------
(* C2 *)

\* C2: on a Funded escrow, with matching Immutables and maker or taker as the
\* caller, withdraw succeeds if and only if the secret commits to the hashlock
\* and now is in [WithdrawalStart, CancellationStart); a wrong secret fails
\* with InvalidSecret, a right secret outside the window with InvalidTime.
C2_WithdrawSucceedsIff ==
    (/\ last.op = "withdraw"
     /\ last.pre = "Funded"
     /\ ValidImmutables(last.escrow, last.immutables)
     /\ last.caller \in {last.immutables.maker, last.immutables.taker})
    => /\ last.ok <=> (/\ CommitOK(last.secret, last.immutables)
                       /\ InWithdrawWindow(last.escrow, last.immutables))
       /\ ~CommitOK(last.secret, last.immutables) => last.err = "InvalidSecret"
       /\ (/\ CommitOK(last.secret, last.immutables)
           /\ ~InWithdrawWindow(last.escrow, last.immutables))
          => last.err = "InvalidTime"

-----------------------------------------------------------------------------
(* C3 *)

\* C3: cancel (by the refunding party, with matching Immutables) succeeds if
\* and only if now >= CancellationStart and the escrow is still Funded; before
\* CancellationStart it fails with InvalidTime and the escrow stays Funded.
C3_CancelSucceedsIff ==
    (/\ last.op = "cancel"
     /\ ValidImmutables(last.escrow, last.immutables)
     /\ last.caller = Depositor(last.escrow, last.immutables))
    => /\ last.ok <=> (/\ now >= CancellationStart(last.escrow, last.immutables)
                       /\ last.pre = "Funded")
       /\ (last.pre = "Funded" /\ now < CancellationStart(last.escrow, last.immutables))
          => (last.err = "InvalidTime" /\ EscrowState(last.escrow) = "Funded")

-----------------------------------------------------------------------------
(* C4 *)

\* C4: Withdrawn and Cancelled are absorbing: once an escrow is Withdrawn or
\* Cancelled, every later deposit, withdraw, publicWithdraw or cancel on it
\* fails.
C4_TerminalStatesAbsorbing ==
    (last.op \in EscrowOps /\ last.pre \in {"Withdrawn", "Cancelled"}) => ~last.ok

-----------------------------------------------------------------------------
(* C5 *)

\* C5: an escrow moves only Uninitialized -> Funded -> {Withdrawn, Cancelled}:
\* deposit succeeds only on an Uninitialized escrow, and withdraw,
\* publicWithdraw and cancel succeed only on a Funded one.
C5_LifecycleOrder ==
    /\ (last.op = "deposit" /\ last.ok) => last.pre = "Uninitialized"
    /\ (last.op \in {"withdraw", "publicWithdraw", "cancel"} /\ last.ok)
       => last.pre = "Funded"

-----------------------------------------------------------------------------
(* C6 *)

\* The callers a call of op is open to before the secret is looked at.
PassesAccessCheck(op, caller) == op = "publicWithdraw" => OnlyAccessTokenHolder(caller)

-----------------------------------------------------------------------------
(* C7 *)

\* C7: a successful withdraw forwards claimSwap to the adapter (the adapter
\* reports SwapClaimed for the hashlock), the escrow transfers exactly the
\* principal to the depositor's counterparty and exactly the safety deposit to
\* the depositor, and nothing else, and the escrow is left Withdrawn.
C7_WithdrawEffect ==
    (last.op \in {"withdraw", "publicWithdraw"} /\ last.ok)
    => LET e == last.escrow
           I == last.immutables
       IN /\ \E i \in 1..Len(last.trace) :
                /\ last.trace[i].kind = "event"
                /\ last.trace[i].what = "SwapClaimed"
                /\ last.trace[i].from = AdapterAddr
                /\ last.trace[i].hashlock = I.hashlock
          /\ TransfersFrom(last.trace, e) =
                <<Xfer(I.token, e, Counterparty(e, I), I.amount),
                  Xfer(Native, e, Depositor(e, I), I.safetyDeposit)>>
          /\ EscrowState(e) = "Withdrawn"

C7_Witness ==
    /\ last.op = "withdraw"
    /\ last.ok
    /\ last.pre = "Funded"
    /\ EscrowState(last.escrow) = "Withdrawn"

-----------------------------------------------------------------------------
(* C8 *)

\* C8: a successful cancel returns the principal and the safety deposit to the
\* depositor, pays nobody else, and leaves the escrow Cancelled.
C8_CancelEffect ==
    (last.op = "cancel" /\ last.ok)
    => LET e == last.escrow
           I == last.immutables
       IN /\ TransfersFrom(last.trace, e) =
                <<Xfer(I.token, e, Depositor(e, I), I.amount),
                  Xfer(Native, e, Depositor(e, I), I.safetyDeposit)>>
          /\ \A i \in 1..Len(last.trace) :
                last.trace[i].kind = "transfer" => last.trace[i].to = Depositor(e, I)
          /\ EscrowState(e) = "Cancelled"

C8_Witness ==
    /\ last.op = "cancel"
    /\ last.ok
    /\ last.pre = "Funded"
    /\ EscrowState(last.escrow) = "Cancelled"

-----------------------------------------------------------------------------
(* C9 *)

\* C9: while an escrow is Funded it holds the leg's funds itself: its own
\* balance covers the principal and the safety deposit.
C9_FundedEscrowHoldsFunds ==
    \A e \in Escrows :
        EscrowState(e) = "Funded"
        => LET I == ImmutablesOf(e)
           IN IF I.token = Native
              THEN eth[e] >= I.amount + I.safetyDeposit
              ELSE tok[e] >= I.amount /\ eth[e] >= I.safetyDeposit

-----------------------------------------------------------------------------
(* C10 *)

\* C10: deposit succeeds only for the depositor of the leg, withdraw only for
\* maker or taker, cancel only for the refunding party; a call by anybody else
\* (that the checks made before the caller check let through) reverts with
\* InvalidCaller, and no state or balance changes.
C10_CallerRestrictions ==
    [][(last'.op \in {"deposit", "withdraw", "cancel"} /\ Idle)
       => LET e == last'.escrow
              I == last'.immutables
              allowed == IF last'.op = "withdraw" THEN {I.maker, I.taker}
                         ELSE {Depositor(e, I)}
              reachesCallerCheck ==
                  CASE last'.op = "deposit" -> ValidImmutables(e, I)
                    [] last'.op = "withdraw" -> /\ ValidImmutables(e, I)
                                                /\ CommitOK(last'.secret, I)
                                                /\ InEnforcedWithdrawWindow(I)
                    [] OTHER -> TRUE
          IN /\ last'.ok => (ValidImmutables(e, I) /\ last'.caller \in allowed)
             /\ (last'.caller \notin allowed /\ reachesCallerCheck)
                => (/\ ~last'.ok
                    /\ last'.err = "InvalidCaller"
                    /\ UNCHANGED chainVars)]_vars

\* C10 as stated: whatever else is wrong with the call, a deposit, withdraw or
\* cancel (with matching Immutables) by a caller other than the permitted one
\* gets InvalidCaller.
C10_OtherCallerGetsInvalidCaller ==
    (/\ last.op \in {"deposit", "withdraw", "cancel"}
     /\ ValidImmutables(last.escrow, last.immutables)
     /\ last.caller \notin (IF last.op = "withdraw"
                             THEN {last.immutables.maker, last.immutables.taker}
                             ELSE {Depositor(last.escrow, last.immutables)}))
    => (~last.ok /\ last.err = "InvalidCaller")

C10_Witness ==
    /\ last.op = "withdraw"
    /\ last.pre = "Funded"
    /\ last.caller = Other
    /\ last.err = "InvalidCaller"
    /\ eth[last.escrow] >= Amount + SafetyDeposit

-----------------------------------------------------------------------------
(* C11 *)

\* The operations that carry the onlyValidImmutables modifier.
ValidatedOps == {"deposit", "withdraw", "publicWithdraw", "cancel", "setSwapReady",
                 "createSwap"}

\* cancel checks the caller against the maker, and publicWithdraw against the
\* access token, before the Immutables are validated.
CallerCheckedFirst(op, caller, immutables) ==
    \/ op = "cancel" /\ ~OnlyMaker(caller, immutables)
    \/ op = "publicWithdraw" /\ ~OnlyAccessTokenHolder(caller)

\* C11: an escrow operation called with Immutables that are not those of the
\* instance fails and changes nothing on chain, so no operation ever takes
\* effect under other Immutables than the instance's own.  The error is
\* InvalidImmutables, except that cancel by somebody other than the maker
\* named in the Immutables, and publicWithdraw by a caller without the access
\* token, are turned away with InvalidCaller first.
C11_ForeignImmutablesRejected ==
    [][(last'.op \in ValidatedOps /\ Idle)
       => LET e == last'.escrow
              I == last'.immutables
          IN /\ last'.ok => ValidImmutables(e, I)
             /\ ~ValidImmutables(e, I)
                => (/\ ~last'.ok
                    /\ UNCHANGED chainVars
                    /\ last'.err = IF CallerCheckedFirst(last'.op, last'.caller, I)
                                   THEN "InvalidCaller"
                                   ELSE "InvalidImmutables")]_vars

\* C11 as stated: whoever calls, deposit, withdraw, publicWithdraw, cancel or
\* setSwapReady with Immutables that are not the instance's gets
\* InvalidImmutables.
C11_AlwaysInvalidImmutables ==
    (/\ last.op \in {"deposit", "withdraw", "publicWithdraw", "cancel", "setSwapReady"}
     /\ ~ValidImmutables(last.escrow, last.immutables))
    => (~last.ok /\ last.err = "InvalidImmutables")

C11_Witness ==
    /\ last.op = "withdraw"
    /\ last.pre = "Funded"
    /\ ~ValidImmutables(last.escrow, last.immutables)
    /\ last.caller = last.immutables.taker
    /\ CommitOK(last.secret, last.immutables)
    /\ now >= TimelocksGet(last.immutables.timelocks, "DstWithdrawal")
    /\ last.err = "InvalidImmutables"

-----------------------------------------------------------------------------
(* C12 *)

\* C12: after a successful deposit the escrow is Funded, the adapter maps the
\* hashlock of the Immutables the deposit was validated against to an
\* identifier, and the registry record under that identifier is PENDING with
\* the counterparty as claimer, the asset I.token and the value I.amount.
C12_DepositMirrorsLeg ==
    (last.op = "deposit" /\ last.ok)
    => LET e == last.escrow
           I == last.immutables
           id == hashlockToSwapID[I.hashlock]
       IN /\ EscrowState(e) = "Funded"
          /\ id # 0
          /\ RegistryStage(Chain, id) = "PENDING"
          /\ swaps[id].swap.claimer = Counterparty(e, I)
          /\ swaps[id].swap.asset = I.token
          /\ swaps[id].swap.value = I.amount

-----------------------------------------------------------------------------
(* C13 *)

\* C13: publicWithdraw succeeds only for a holder of the access token, with a
\* secret that commits to I.hashlock, at a time from the leg's
\* PublicWithdrawalStart and before its CancellationStart; and when it
\* succeeds the adapter has claimed the swap, the escrow has paid the principal
\* to the counterparty and the safety deposit to the depositor, and the escrow
\* is Withdrawn.
C13_PublicWithdraw ==
    (last.op = "publicWithdraw" /\ last.ok)
    => LET e == last.escrow
           I == last.immutables
       IN /\ OnlyAccessTokenHolder(last.caller)
          /\ CommitOK(last.secret, I)
          /\ now >= PublicWithdrawalStart(e, I)
          /\ now < CancellationStart(e, I)
          /\ \E i \in 1..Len(last.trace) :
                /\ last.trace[i].kind = "event"
                /\ last.trace[i].what = "SwapClaimed"
                /\ last.trace[i].hashlock = I.hashlock
          /\ TransfersFrom(last.trace, e) =
                <<Xfer(I.token, e, Counterparty(e, I), I.amount),
                  Xfer(Native, e, Depositor(e, I), I.safetyDeposit)>>
          /\ EscrowState(e) = "Withdrawn"

-----------------------------------------------------------------------------
(* C14 *)

\* The adapter reported the event for the hashlock during the transaction.
AdapterEmitted(trace, name, hashlock) ==
    \E i \in 1..Len(trace) : /\ trace[i].kind = "event"
                             /\ trace[i].from = AdapterAddr
                             /\ trace[i].what = name
                             /\ trace[i].hashlock = hashlock

\* C14: deposit, withdraw, publicWithdraw and cancel have no partial effects.
\* A call that fails at any step leaves escrow state, balances, allowances,
\* adapter mapping and registry exactly as they were; a call that succeeds
\* has carried out every one of its steps: deposit took msg.value, registered
\* the swap with the adapter and emitted Deposit; withdraw and publicWithdraw
\* claimed the swap and made both payments; cancel made both payments.
C14_NoPartialEffects ==
    [][(last'.op \in EscrowOps /\ Idle)
       => LET e == last'.escrow
              I == last'.immutables
              op == last'.op
              trace == last'.trace
          IN /\ ~last'.ok => (UNCHANGED chainVars /\ trace = <<>>)
             /\ (last'.ok /\ op = "deposit")
                => /\ AdapterEmitted(trace, "SwapCreated", last'.hashlock)
                   /\ Len(swaps') = Len(swaps) + 1
                   /\ Xfer(I.token, e, AdapterAddr, I.amount) \in
                         {trace[i] : i \in 1..Len(trace)}
                   /\ escrowLog'[e] = Append(escrowLog[e], "Deposit")
             /\ (last'.ok /\ op \in {"withdraw", "publicWithdraw"})
                => /\ AdapterEmitted(trace, "SwapClaimed", I.hashlock)
                   /\ Len(TransfersFrom(trace, e)) = 2
                   /\ escrowLog'[e] = Append(escrowLog[e], "EscrowWithdrawal")
             /\ (last'.ok /\ op = "cancel")
                => /\ Len(TransfersFrom(trace, e)) = 2
                   /\ escrowLog'[e] = Append(escrowLog[e], "EscrowCancelled")]_vars

\* A withdraw that failed at its payment, after the adapter had claimed the
\* swap: the registry record is PENDING again.
C14_Witness ==
    /\ last.op = "withdraw"
    /\ ~last.ok
    /\ last.err = "NativeTokenSendingFailure"
    /\ last.pre = "Funded"
    /\ hashlockToSwapID[last.immutables.hashlock] # 0
    /\ RegistryStage(Chain, hashlockToSwapID[last.immutables.hashlock]) = "PENDING"

-----------------------------------------------------------------------------
(* C15 *)

\* Descriptors that differ from the source escrow's in exactly one field.
ImmutablesVariants ==
    LET I == ImmutablesOf(EscrowSrc)
    IN {[I EXCEPT !.orderHash = "order2"], [I EXCEPT !.hashlock = Keccak("s2")],
        [I EXCEPT !.maker = Other], [I EXCEPT !.taker = Other],
        [I EXCEPT !.token = Token], [I EXCEPT !.amount = @ + 1],
        [I EXCEPT !.safetyDeposit = @ + 1],
        [I EXCEPT !.timelocks = ScriptTimelocks]}

\* addressOf(I): the factory's address function at the salt of I
AddressOf(immutables) == FactoryAddressOfSrcEscrow(ImmutablesHash(immutables))

-----------------------------------------------------------------------------
(* C16 *)

\* C16: instantiating at an identity that already carries an escrow fails
\* with an error and changes nothing: the instances are the same as before,
\* and so are the existing instance's state and funds and everything else on
\* chain.  A creation that succeeds puts code where there was none, so an
\* identity never carries more than the one instance first created there.
C16_NoReinstantiation ==
    [][(last'.op = "createSrcEscrow" /\ Idle)
       => LET addr == AddressOf(last'.immutables)
          IN /\ addr \in deployed
                => (/\ ~last'.ok
                    /\ last'.err # ""
                    /\ deployed' = deployed
                    /\ UNCHANGED chainVars)
             /\ last'.ok => (addr \notin deployed /\ deployed \subseteq deployed')]_vars

\* The source escrow's instance is funded when somebody tries to create it
\* again.
C16_Witness ==
    /\ last.op = "createSrcEscrow"
    /\ ~last.ok
    /\ AddressOf(last.immutables) = SrcInstanceAddress
    /\ EscrowState(EscrowSrc) = "Funded"
    /\ eth[EscrowSrc] > 0

-----------------------------------------------------------------------------
(* C17 *)

\* C17: the adapter's mapping from hashlock to identifier is write-once.  No
\* step, by any caller, changes hashlockToSwapID[h] once it is set; a second
\* createSwap for the hashlock does not overwrite it.
C17_MappingWriteOnce ==
    [][\A h \in Hashlocks :
          hashlockToSwapID[h] # 0 => hashlockToSwapID'[h] = hashlockToSwapID[h]]_vars

-----------------------------------------------------------------------------
(* C18 *)

\* C18: the adapter's two maps are inverse to each other.  hashlockToSwapID[h]
\* is a non-zero s exactly if swapIDToHashlock[s] is h, and no two hashlocks
\* map to the same identifier.
C18_MapsAreInverse ==
    /\ \A h \in Hashlocks, id \in DOMAIN swapIDToHashlock :
          (hashlockToSwapID[h] = id) <=> (swapIDToHashlock[id] = h)
    /\ \A h1, h2 \in Hashlocks :
          (hashlockToSwapID[h1] # 0 /\ hashlockToSwapID[h1] = hashlockToSwapID[h2])
          => h1 = h2

-----------------------------------------------------------------------------
(* C19 *)

AdapterLookupOps ==
    {"adapter.setSwapReady", "adapter.claimSwap", "adapter.refundSwap",
     "adapter.getSwapStatus"}

\* C19: setSwapReady, claimSwap, refundSwap and getSwapStatus called with a
\* hashlock the adapter has no identifier for (no createSwap has succeeded
\* for it) fail with 'Swap not found', leave the registry and everything else
\* on chain as it was, and emit no event - whatever Swap argument comes with
\* the call.
C19_UnmappedHashlockNotFound ==
    [][(last'.op \in AdapterLookupOps /\ Idle /\ hashlockToSwapID[last'.hashlock] = 0)
       => (/\ ~last'.ok
           /\ last'.err = "Swap not found"
           /\ last'.trace = <<>>
           /\ UNCHANGED chainVars)]_vars

\* The registry holds a swap, under another hashlock, when the call comes.
C19_Witness ==
    /\ last.op = "adapter.claimSwap"
    /\ last.err = "Swap not found"
    /\ hashlockToSwapID[last.hashlock] = 0
    /\ \E h \in Hashlocks : /\ hashlockToSwapID[h] # 0
                            /\ RegistryStage(Chain, hashlockToSwapID[h]) = "PENDING"

-----------------------------------------------------------------------------
(* C20 *)

\* The operations that end in XMRSwapAdapter.createSwap.
CreateSwapOps == {"deposit", "createSwap", "adapter.createSwap"}

\* C20: adapter and registry change together.  A createSwap that fails, at
\* the registry's newSwap or anywhere else, leaves the mapping, the balances
\* and the allowances as they were; and whenever a hashlock is mapped, the
\* registry holds a swap that is not INVALID under the mapped identifier, so
\* getSwapStatus of a mapped hashlock never returns INVALID.
C20_AdapterRegistryAtomic ==
    [][/\ (last'.op \in CreateSwapOps /\ Idle /\ ~last'.ok) => UNCHANGED chainVars
       /\ \A h \in Hashlocks :
            hashlockToSwapID'[h] # 0
            => /\ hashlockToSwapID'[h] \in 1..Len(swaps')
               /\ swaps'[hashlockToSwapID'[h]].stage # "INVALID"]_vars

\* The registry turned a createSwap down after the adapter had taken the
\* value sent with it.
C20_Witness ==
    /\ last.op = "adapter.createSwap"
    /\ ~last.ok
    /\ last.err = "SwapAlreadyExists"
    /\ eth[AdapterAddr] = 0
    /\ \E h \in Hashlocks : hashlockToSwapID[h] # 0

-----------------------------------------------------------------------------
(* C21 *)

\* The lifecycle state a persisted order record stands for.
OrderState(order) ==
    IF ~order.exists THEN "None"
    ELSE IF order.ethClaimed THEN "Completed"
    ELSE IF order.secretRevealed THEN "SecretRevealed"
    ELSE IF order.monero # "none" THEN "CounterLegFunded"
    ELSE IF order.escrow THEN "EscrowCreated"
    ELSE IF order.filledAt THEN "Filled"
    ELSE "Created"

\* The result a step builds on is in the record.
PrecedingRecorded(step, order) ==
    CASE step = "fill" -> order.exists
      [] step = "createEscrow" -> order.filledAt /\ order.takerAddress # ""
      [] step = "fundXmr" -> order.escrow
      [] step = "claimXmr" -> order.monero # "none"
      [] step = "claimEth" -> order.secretRevealed /\ order.monero = "claimed"

\* No result is recorded without the results before it.
NoStepSkipped(order) ==
    /\ order.escrow => order.filledAt
    /\ order.monero # "none" => order.escrow
    /\ order.secretRevealed => order.monero # "none"
    /\ order.ethClaimed => order.secretRevealed

\* C21: an order advances only along Created, Filled, EscrowCreated,
\* CounterLegFunded, SecretRevealed, Completed.  A step that has acted (and is
\* about to write its result) has read a record that holds the preceding
\* step's result, and no persisted record holds a result without all the
\* results before it.
C21_LifecycleOrdering ==
    /\ \A id \in OrderIds : NoStepSkipped(orderFiles[id])
    /\ \A p \in Procs :
         proc[p].pc = "acted" =>
            /\ PrecedingRecorded(proc[p].step, proc[p].order)
            /\ NoStepSkipped(StepRecord(proc[p].step, proc[p].order, Taker))

\* An order has gone through every step, and a step that came too early threw.
C21_Witness ==
    /\ \E id \in OrderIds : OrderState(orderFiles[id]) = "Completed"
    /\ \E p \in Procs : proc[p].pc = "threw" /\ proc[p].err # "external action failed"

-----------------------------------------------------------------------------
(* C22 *)

\* C22: the coordinator's steps are idempotent.  No step submits its external
\* action (escrow creation, counter-ledger funding, counter-ledger claim, EVM
\* withdraw) a second time for the same order, whether it is invoked again
\* after it has recorded its result or after it was cut off between the
\* external action and the write of the record.
C22_StepsIdempotent ==
    \A id \in OrderIds, step \in ExternalSteps : sent[id][step] <= 1

-----------------------------------------------------------------------------
(* C23 *)

\* C23: a step that fails, because a check on the record fails or because the
\* external action throws, leaves every persisted order record exactly as it
\* was when the step was invoked.
C23_FailedStepLeavesRecord ==
    [][(\E p \in Procs : proc[p].pc = "idle" /\ proc'[p].pc = "threw")
          => orderFiles' = orderFiles]_vars

\* A check has failed on an order past its creation, and an external action
\* has thrown.
C23_Witness ==
    \E p \in Procs :
        /\ proc[p].pc = "threw"
        /\ proc[p].err = "external action failed"
        /\ OrderState(orderFiles[proc[p].id]) = "SecretRevealed"

-----------------------------------------------------------------------------
(* C24 *)

\* C24: a timelock configuration whose source leg starts cancellation before
\* the destination leg does is rejected: no escrow is ever funded under it.
C24_MisorderedTimelocksRejected ==
    TimelocksGet(timelocks, "SrcCancellation") < TimelocksGet(timelocks, "DstCancellation")
        => \A e \in Escrows : escrowLog[e] = <<>>

-----------------------------------------------------------------------------
(* C25 *)

\* C25: the reaction window.  When the maker discloses the secret by claiming
\* on the counter-ledger, cancellation of the EVM leg is not enabled, and the
\* EVM leg's CancellationStart is strictly later than the counter-ledger
\* leg's, up to which the secret can be disclosed, so that the taker is left
\* a window to claim in.
C25_ReactionWindow ==
    [][(xmr = "locked" /\ xmr' = "claimed")
          => LET I == ImmutablesOf(EscrowSrc)
             IN /\ SrcCancelChecks(EscrowSrc, Maker, I) # ""
                /\ CancellationStart(EscrowSrc, I) > CounterLegCancellation]_vars

-----------------------------------------------------------------------------
(* C26 *)

\* C26: the taker's EVM claim never precedes the reveal.  Whenever the
\* taker-claim step submits withdraw for an order, the order's record holds
\* the reveal and the maker's claim transaction, the maker's counter-ledger
\* claim has been submitted, and the record's secret hashes to the record's
\* hashlock; a taker-claim step that throws submits nothing.
C26_ClaimAfterReveal ==
    [][\A id \in OrderIds :
          /\ sent'[id]["claimEth"] # sent[id]["claimEth"]
                => /\ orderFiles[id].secretRevealed
                   /\ orderFiles[id].monero = "claimed"
                   /\ sent[id]["claimXmr"] >= 1
                   /\ Sha256(orderFiles[id].secret) = orderFiles[id].hashlock
          /\ (\E p \in Procs : /\ proc'[p].pc = "threw"
                                /\ proc'[p].step = "claimEth"
                                /\ proc'[p].id = id)
                => sent'[id] = sent[id]]_vars

\* The taker has claimed on an order, and a taker-claim step on an order
\* without the reveal has thrown.
C26_Witness ==
    /\ \E id \in OrderIds : sent[id]["claimEth"] >= 1
    /\ \E p \in Procs : /\ proc[p].pc = "threw"
                         /\ proc[p].step = "claimEth"
                         /\ proc[p].err = "Secret has not been revealed yet"

-----------------------------------------------------------------------------
(* C27 *)

\* C27: an order that has not completed can be cancelled once the
\* cancellation deadline has passed.  With the EVM escrow funded, the
\* counter-ledger funds not claimed and the deadline passed, the parties who
\* keep asking for their funds get the order to Cancelled/Refunded: the
\* escrow cancelled and the counter-ledger funds, if any were locked, back
\* with the taker.
C27_RefundReachable ==
    (/\ EscrowState(EscrowSrc) = "Funded"
     /\ xmr # "claimed"
     /\ now >= CancellationStart(EscrowSrc, ImmutablesOf(EscrowSrc)))
        ~> (EscrowState(EscrowSrc) = "Cancelled" /\ xmr \in {"none", "refunded"})

-----------------------------------------------------------------------------
(* C28 *)

\* The results a record holds.
Results(order) ==
    {r \in {"filled", "escrow", "funded", "claimed", "revealed", "ethClaimed"} :
        CASE r = "filled" -> order.filledAt
          [] r = "escrow" -> order.escrow
          [] r = "funded" -> order.monero # "none"
          [] r = "claimed" -> order.monero = "claimed"
          [] r = "revealed" -> order.secretRevealed
          [] r = "ethClaimed" -> order.ethClaimed}

\* C28: two step invocations on one order never overlap in effect.  A step
\* does not submit its external action while another process has submitted
\* the same action for the order and not yet recorded it, and when a step
\* writes the record, every result that was recorded after the step read
\* the file is still in the record.
C28_NoOverlap ==
    [][\A p \in Procs :
          /\ (/\ proc[p].pc = "idle"
              /\ proc'[p].pc = "acted"
              /\ proc'[p].step \in ExternalSteps)
                => ~\E q \in Procs \ {p} : /\ proc[q].pc = "acted"
                                            /\ proc[q].id = proc'[p].id
                                            /\ proc[q].step = proc'[p].step
          /\ (proc[p].pc = "acted" /\ proc'[p].pc = "idle")
                => (Results(orderFiles[proc[p].id]) \ Results(proc[p].order))
                      \subseteq Results(orderFiles'[proc[p].id])]_vars

-----------------------------------------------------------------------------
(* C29 *)

\* The order a process is working on, before or after the step.
WorkedOn(p) == IF proc[p].pc = "idle" THEN proc'[p].id ELSE proc[p].id

\* C29: distinct orders are independent.  Creating an order leaves the
\* record of every order that exists unchanged, also when that order was
\* created in the same second, and a step of a script on one order leaves
\* the record of every other order unchanged.
C29_OrdersIndependent ==
    [][/\ proc' = proc
          => \A id \in OrderIds : orderFiles[id].exists => orderFiles'[id] = orderFiles[id]
       /\ \A p \in Procs :
            proc'[p] # proc[p]
               => \A id \in OrderIds \ {WorkedOn(p)} : orderFiles'[id] = orderFiles[id]]_vars

-----------------------------------------------------------------------------
(* C30 *)

\* C30: swaps with distinct hashlocks do not interfere on chain.  A call of
\* an escrow or of the adapter made for hashlock h leaves, for every other
\* hashlock, the adapter's two mapping entries and the registry's record as
\* they were.
C30_HashlocksIndependent ==
    [][(Idle /\ last'.op # "none")
          => \A h \in Hashlocks \ {last'.hashlock, last'.immutables.hashlock} :
                LET id == hashlockToSwapID[h]
                IN /\ hashlockToSwapID'[h] = id
                   /\ id # 0 => /\ swapIDToHashlock'[id] = swapIDToHashlock[id]
                                /\ id \in 1..Len(swaps) => swaps'[id] = swaps[id]]_vars

-----------------------------------------------------------------------------
(* C31 *)

\* What a transaction pays out of the system (escrows, adapter, registry) to
\* the users.
RECURSIVE PaidOut(_)
PaidOut(trace) ==
    IF trace = <<>> THEN 0
    ELSE (IF /\ Head(trace).kind = "transfer"
             /\ Head(trace).from \notin Users
             /\ Head(trace).to \in Users
          THEN Head(trace).amount ELSE 0) + PaidOut(Tail(trace))

\* C31: the principal of a leg is paid out once.  A withdraw, publicWithdraw
\* or cancel that succeeds pays the users no more than I.amount +
\* I.safetyDeposit in all, the registry's payout on claim included.
C31_PrincipalPaidOnce ==
    [][(Idle /\ last'.ok /\ last'.op \in {"withdraw", "publicWithdraw", "cancel"})
          => PaidOut(last'.trace)
                <= last'.immutables.amount + last'.immutables.safetyDeposit]_vars

-----------------------------------------------------------------------------
(* C32 *)

\* C32: the registry stays consistent with the escrow.  While an escrow is
\* Funded the registry entry mapped from I.hashlock is PENDING or READY, and
\* once the escrow is Withdrawn or Cancelled that entry is COMPLETED.
C32_RegistryFollowsEscrow ==
    \A e \in deployed :
        LET stage == RegistryStage(Chain, hashlockToSwapID[ImmutablesOf(e).hashlock])
        IN /\ EscrowState(e) = "Funded" => stage \in {"PENDING", "READY"}
           /\ EscrowState(e) \in {"Withdrawn", "Cancelled"} => stage = "COMPLETED"

-----------------------------------------------------------------------------
(* C33 *)

\* C33: an adapter lifecycle call acts on the mapped swap only.  When
\* setSwapReady, claimSwap or refundSwap succeeds for a hashlock, the only
\* registry entry whose stage changes is the one hashlockToSwapID holds for
\* that hashlock, whatever swap record the caller passed.
C33_ActsOnMappedSwap ==
    [][(/\ Idle
        /\ last'.ok
        /\ last'.op \in {"adapter.setSwapReady", "adapter.claimSwap", "adapter.refundSwap"})
          => \A id \in 1..Len(swaps) :
                swaps'[id].stage # swaps[id].stage
                   => id = hashlockToSwapID[last'.hashlock]]_vars

-----------------------------------------------------------------------------
(* C34: the Immutables of the escrow-creation step and of the claim step *)

\* maker create escrow: the timelocks are built from the script's clock.
MakerEscrowTimelocks(t) ==
    [deployedAt          |-> t,
     SrcWithdrawal       |-> t + 0,
     SrcPublicWithdrawal |-> t + 1,
     SrcCancellation     |-> t + 2,
     DstWithdrawal       |-> t + 0,
     DstPublicWithdrawal |-> t + 1,
     DstCancellation     |-> t + 2]

\* maker create escrow: the Immutables handed to the factory at time t.
MakerEscrowImmutables(order, t) ==
    [maker         |-> Maker,
     taker         |-> order.takerAddress,
     token         |-> Native,
     amount        |-> Amount,
     hashlock      |-> order.hashlock,
     safetyDeposit |-> SafetyDeposit,
     timelocks     |-> MakerEscrowTimelocks(t)]

\* taker claim ETH: the Immutables handed to withdraw; deployedAt is left 0
\* and the stages are the bare offsets.
TakerClaimImmutables(order) ==
    [maker         |-> Maker,
     taker         |-> order.takerAddress,
     token         |-> Native,
     amount        |-> Amount,
     hashlock      |-> order.hashlock,
     safetyDeposit |-> SafetyDeposit,
     timelocks     |-> ScriptTimelocks]

\* C34: whenever the escrow-creation step submits its transaction for an
\* order, the Immutables the claim step builds for that order are equal, field
\* for field, to the Immutables the creation step has built.
C34_ClaimImmutablesMatchCreation ==
    [][\A p \in Procs :
          (proc[p].pc = "idle" /\ proc'[p].pc = "acted" /\ proc'[p].step = "createEscrow")
             => TakerClaimImmutables(proc'[p].order)
                   = MakerEscrowImmutables(proc'[p].order, now)]_vars

-----------------------------------------------------------------------------
(* C35: the commitment off chain and on chain *)

\* C35: whenever the claim step's own check of the secret against the order's
\* hashlock passes, the escrow's secret check accepts the order's secret for
\* the hashlock the escrow was created with.
C35_SameCommitment ==
    [][\A p \in Procs :
          (proc[p].pc = "idle" /\ proc'[p].pc = "acted" /\ proc'[p].step = "claimEth")
             => OnlyValidSecret(proc'[p].order.secret,
                                MakerEscrowImmutables(proc'[p].order, now))]_vars


-----------------------------------------------------------------------------
(* C36: claim and refund are never enabled together *)

\* Some withdraw or publicWithdraw with the escrow's Immutables would succeed now.
CanClaim(e) ==
    \/ \E caller \in Users, secret \in Secrets :
          IF e = EscrowSrc
          THEN SrcWithdraw(Chain, e, caller, secret, ImmutablesOf(e)).ok
          ELSE DstWithdraw(Chain, e, caller, secret, ImmutablesOf(e)).ok
    \/ /\ e = EscrowSrc
       /\ \E caller \in Users, secret \in Secrets :
             SrcPublicWithdraw(Chain, e, caller, secret, ImmutablesOf(e)).ok

\* Some cancel with the escrow's Immutables would succeed now.
CanRefund(e) ==
    /\ e = EscrowSrc
    /\ \E caller \in Users : SrcCancel(Chain, e, caller, ImmutablesOf(e)).ok

\* C36: on no escrow and at no time can both a claim (withdraw or
\* publicWithdraw) and a refund (cancel) succeed; at the instant
\* CancellationStart of the escrow's leg no claim can succeed.
C36_ClaimRefundExclusive ==
    \A e \in deployed :
        /\ ~(CanClaim(e) /\ CanRefund(e))
        /\ now = CancellationStart(e, ImmutablesOf(e)) => ~CanClaim(e)


-----------------------------------------------------------------------------
(* C37: each escrow enforces the stages of its own leg *)

\* The secret an escrow's hashlock commits to.
SecretOf(e) == CHOOSE secret \in Secrets : Keccak(secret) = ImmutablesOf(e).hashlock

\* C37: with the right caller, secret and Immutables, the checks of withdraw,
\* publicWithdraw and cancel pass exactly in the windows given by the stages
\* of the escrow's own leg, whatever the stages of the other leg are.
C37_OwnLegStages ==
    \A e \in deployed :
        LET I == ImmutablesOf(e)
        IN /\ (IF e = EscrowSrc
               THEN SrcWithdrawChecks(e, I.taker, SecretOf(e), I) = ""
               ELSE DstWithdrawChecks(e, I.taker, SecretOf(e), I) = "")
                 <=> (now >= WithdrawalStart(e, I) /\ now < CancellationStart(e, I))
           /\ e = EscrowSrc =>
                /\ (\E caller \in Users : SrcPublicWithdrawChecks(e, caller, SecretOf(e), I) = "")
                     <=> (now >= PublicWithdrawalStart(e, I) /\ now < CancellationStart(e, I))
                /\ SrcCancelChecks(e, I.maker, I) = "" <=> now >= CancellationStart(e, I)


-----------------------------------------------------------------------------
(* C38: funds are never locked forever *)

\* C38: a funded escrow does not stay funded for ever.  Time passes and the
\* depositor keeps calling cancel, so the escrow becomes Withdrawn or
\* Cancelled.
C38_FundsNotLockedForever ==
    EscrowState(EscrowSrc) = "Funded"
       ~> EscrowState(EscrowSrc) \in {"Withdrawn", "Cancelled"}


-----------------------------------------------------------------------------
(* C39: a third party calling the adapter *)

\* The adapter's functions that write.
AdapterWriteOps ==
    {"adapter.createSwap", "adapter.setSwapReady", "adapter.claimSwap", "adapter.refundSwap"}

\* C39: a call of createSwap, setSwapReady, claimSwap or refundSwap made to
\* the adapter by an account that is neither maker nor taker leaves a funded
\* escrow as it was: the identifier mapped to the escrow's hashlock is still
\* the one its deposit created, and withdraw, publicWithdraw and cancel can
\* succeed after the call exactly if they could before it.
C39_ThirdPartyHarmless ==
    [][(Idle /\ last'.op \in AdapterWriteOps /\ last'.caller \notin {Maker, Taker})
          => \A e \in deployed :
                (EscrowState(e) = "Funded" /\ hashlockToSwapID[ImmutablesOf(e).hashlock] # 0)
                   => /\ hashlockToSwapID'[ImmutablesOf(e).hashlock]
                            = hashlockToSwapID[ImmutablesOf(e).hashlock]
                      /\ CanClaim(e)' <=> CanClaim(e)
                      /\ CanRefund(e)' <=> CanRefund(e)]_vars


-----------------------------------------------------------------------------
(* C40: the persisted order only grows *)

\* C40: a step that writes the record it has read, unchanged since, removes
\* or replaces no lifecycle field already recorded: the escrow, the
\* counter-leg funding and claim references, secretRevealed and ethClaimed
\* stay, the taker does not change once the escrow is created, and
\* secretRevealed comes with the counter-leg claim reference.
C40_RecordOnlyGrows ==
    [][\A p \in Procs :
          (/\ proc[p].pc = "acted"
           /\ proc'[p] = NoStep
           /\ proc[p].order = orderFiles[proc[p].id])
             => LET old == orderFiles[proc[p].id]
                    new == orderFiles'[proc[p].id]
                IN /\ old.escrow => new.escrow /\ new.takerAddress = old.takerAddress
                   /\ old.monero # "none" => new.monero # "none"
                   /\ old.monero = "claimed" => new.monero = "claimed"
                   /\ old.secretRevealed => new.secretRevealed
                   /\ old.ethClaimed => new.ethClaimed
                   /\ new.secretRevealed => new.monero = "claimed"]_vars


====
